---- MODULE Spec2Model ----
(***************************************************************************)
(* The Intcode computer of src/src/vm/mod.rs (with vm/op.rs, vm/mode.rs,   *)
(* vm/errors.rs) as a state machine: a Computer {memory, ip}, its callers' *)
(* execute()/run() calls, and one action per iteration of run_all's loop.  *)
(*                                                                         *)
(* Value is i64 and addresses are usize, both 64 bits wide in the source.  *)
(* The model keeps the two's-complement arithmetic and the "as usize"      *)
(* reinterpretation but at a width of ValueBits bits, so that the model    *)
(* checker's integers can hold every intermediate result.                  *)
(***************************************************************************)
EXTENDS Integers, Sequences, FiniteSets, TLC

VARIABLES
    memory,           \* Computer.memory: the Vec<Value>
    ip,               \* Computer.ip: usize
    image,            \* the memory image handed to Computer::new
    overflow_checks,  \* the build's overflow checks: "on" (overflow panics), "off" (it wraps),
                      \* "unobserved" while no overflow has shown which build this is
    pc,               \* "idle" (no call in progress), "run_all" (inside the loop), "aborted" (panicked)
    api,              \* which entry point the current/last call used: "none", "execute", "run"
    input,            \* the caller's read channel: the values it handed out, and whether it ran dry
    output,           \* values the caller's write channel has captured, in order
    result,           \* what the last finished call returned
    last,             \* what the last step() did (its operands, effects and outcome)
    calls,            \* number of execute()/run() calls made so far
    steps,            \* number of step() calls made so far
    mcall,            \* the last call made on the Memory trait directly (SpecMemory)
    twin,             \* the other of two Computers built from the same image (SpecTwin)
    puzzle            \* the call made on a function of a day's solution: its argument and result

vars == <<memory, ip, image, overflow_checks, pc, api, input, output, result, last, calls, steps,
          mcall, twin, puzzle>>

---------------------------------------------------------------------------
(* Bounds of the model *)

ValueBits == 16
MaxCalls == 2
MaxSteps == 5
MaxInput == 2
MaxVecLen == 3

---------------------------------------------------------------------------
(* Value = i64 and usize, at ValueBits bits *)

RECURSIVE Pow2(_)
Pow2(n) == IF n = 0 THEN 1 ELSE 2 * Pow2(n - 1)

TwoW == Pow2(ValueBits)
MaxValue == Pow2(ValueBits - 1) - 1
MinValue == 0 - Pow2(ValueBits - 1)
UsizeMax == TwoW - 1

Abs(x) == IF x < 0 THEN 0 - x ELSE x

\* "value as usize": the two's-complement bits read as unsigned
AsUsize(v) == v % TwoW

\* the two's-complement bits of an unsigned/unbounded integer read as a Value
Wrap(n) == ((n - MinValue) % TwoW) + MinValue

\* Rust's i64 "/" and "%" truncate toward zero (the remainder has the dividend's sign)
Quot(a, b) == IF a >= 0 THEN a \div b ELSE 0 - ((0 - a) \div b)
Rem(a, b) == IF a >= 0 THEN a % b ELSE 0 - ((0 - a) % b)

\* a + b on i64: exact when it fits, otherwise an overflow
AddOverflows(a, b) == a + b > MaxValue \/ a + b < MinValue

\* (mutant) a counter shared by every Computer of the process leaks into the sum
AddWrapped_adds_a_shared_counter(a, b) == Wrap(a + b + twin.n)

AddWrapped(a, b) == Wrap(a + b)

\* a * b on i64, computed without leaving the model checker's integer range
MulOverflows(a, b) ==
    /\ a # 0
    /\ b # 0
    /\ IF (a < 0) = (b < 0)
         THEN Abs(a) > MaxValue \div Abs(b)
         ELSE Abs(a) > (MaxValue + 1) \div Abs(b)

RECURSIVE MulMod(_, _)
MulMod(a, b) ==
    IF b = 0 THEN 0
    ELSE (MulMod((2 * a) % TwoW, b \div 2) + (IF b % 2 = 1 THEN a ELSE 0)) % TwoW

MulWrapped(a, b) == Wrap(MulMod(AsUsize(a), AsUsize(b)))

---------------------------------------------------------------------------
(* vm/errors.rs: Error and Result *)

Error(kind, val) == [kind |-> kind, val |-> val]
NoError == Error("None", 0)
InvalidOpCode(v) == Error("InvalidOpCode", v)
SegFault(a) == Error("SegFault", a)
ReadingNotSupported == Error("ReadingNotSupported", 0)
WritingNotSupported == Error("WritingNotSupported", 0)
InvalidMode(v) == Error("InvalidMode", v)
\* the payload is the Mode; Immediate is written as its digit 1
InvalidWriteMode(m) == Error("InvalidWriteMode", m)

Ok(v) == [ok |-> TRUE, val |-> v, err |-> NoError]
Err(e) == [ok |-> FALSE, val |-> 0, err |-> e]

---------------------------------------------------------------------------
(* vm/mod.rs: impl Memory for Vec<Value>.  Address a is cell m[a + 1]. *)

\* (mutant) an address past the end is clamped to the last cell
memory_read_clamped(m, address) ==
    IF address < Len(m) THEN Ok(m[address + 1])
    ELSE IF Len(m) > 0 THEN Ok(m[Len(m)]) ELSE Err(SegFault(address))

memory_read(m, address) ==
    IF address < Len(m) THEN Ok(m[address + 1]) ELSE Err(SegFault(address))

\* (mutant) a write just past the end extends the vector
memory_write_extends(m, address, value) ==
    IF address < Len(m)
      THEN [ok |-> TRUE, err |-> NoError, mem |-> [m EXCEPT ![address + 1] = value]]
      ELSE IF address = Len(m)
        THEN [ok |-> TRUE, err |-> NoError, mem |-> Append(m, value)]
        ELSE [ok |-> FALSE, err |-> SegFault(address), mem |-> m]

\* (mutant) the bounds check of write is off by one: the last cell is refused
memory_write_refuses_the_last_cell(m, address, value) ==
    IF address + 1 < Len(m)
      THEN [ok |-> TRUE, err |-> NoError, mem |-> [m EXCEPT ![address + 1] = value]]
      ELSE [ok |-> FALSE, err |-> SegFault(address), mem |-> m]

\* Result<()> together with the vector as the call leaves it
memory_write(m, address, value) ==
    IF address < Len(m)
      THEN [ok |-> TRUE, err |-> NoError, mem |-> [m EXCEPT ![address + 1] = value]]
      ELSE [ok |-> FALSE, err |-> SegFault(address), mem |-> m]

---------------------------------------------------------------------------
(* vm/op.rs and vm/mode.rs *)

OpCodes == {1, 2, 3, 4, 5, 6, 7, 8, 99}

\* (mutant) the error carries 0 instead of the value
OpCode_try_from_loses_value(value) ==
    IF value \in OpCodes THEN Ok(value) ELSE Err(InvalidOpCode(0))

OpCode_try_from(value) ==
    IF value \in OpCodes THEN Ok(value) ELSE Err(InvalidOpCode(value))

Position == 0
Immediate == 1

\* (mutant) every digit other than 1 is taken as position mode
Mode_try_from_lenient(value) ==
    IF value = 1 THEN Ok(Immediate) ELSE Ok(Position)

Mode_try_from(value) ==
    IF value = 0 THEN Ok(Position)
    ELSE IF value = 1 THEN Ok(Immediate)
    ELSE Err(InvalidMode(value))

---------------------------------------------------------------------------
(* The callers' channels.  execute() wires both to the always-failing      *)
(* stubs.  run() is given closures like those of day05.rs: read hands out  *)
(* the values the caller holds, one per call, and ReadingNotSupported from *)
(* the first call that finds none left on; write pushes onto the caller's  *)
(* vector and never fails.  Which value the caller holds next (answer) is  *)
(* chosen when the channel is called; input records the values handed out  *)
(* (taken) and whether the channel has run dry (dry).                      *)

reading_not_supported == Err(ReadingNotSupported)

\* (mutant) the write stub accepts the value
writing_not_supported_accepts(v) == Ok(0)

writing_not_supported(v) == Err(WritingNotSupported)

\* read(): the value read (or the error) and the channel after the call
read_channel(entry, inp, answer) ==
    IF entry = "execute" THEN [r |-> reading_not_supported, input |-> inp]
    ELSE IF inp.dry \/ ~answer.ok
      THEN [r |-> Err(ReadingNotSupported), input |-> [inp EXCEPT !.dry = TRUE]]
      ELSE [r |-> answer, input |-> [inp EXCEPT !.taken = Append(inp.taken, answer.val)]]

\* (mutant) the caller's write closure captures each value twice
write_channel_captures_twice(entry, v) ==
    IF entry = "execute" THEN [r |-> writing_not_supported(v), pushed |-> <<>>]
    ELSE [r |-> Ok(0), pushed |-> <<v, v>>]

\* write(v): Ok(()) or the error, and the values captured by this call
write_channel(entry, v) ==
    IF entry = "execute" THEN [r |-> writing_not_supported(v), pushed |-> <<>>]
    ELSE [r |-> Ok(0), pushed |-> <<v>>]

---------------------------------------------------------------------------
(* vm/mod.rs: Computer::read and Computer::write.  Each also reports the   *)
(* addresses it touched, in order (acc).                                   *)

read(m, address, mode) ==
    LET value == memory_read(m, address) IN
    IF mode = Position
      THEN IF value.ok
             THEN [r |-> memory_read(m, AsUsize(value.val)),
                   acc |-> <<address, AsUsize(value.val)>>]
             ELSE [r |-> value, acc |-> <<address>>]
      ELSE [r |-> value, acc |-> <<address>>]

write(m, address, mode, value) ==
    IF mode = Position
      THEN LET dest == memory_read(m, address) IN
           IF dest.ok
             THEN LET w == memory_write(m, AsUsize(dest.val), value) IN
                  [ok |-> w.ok, err |-> w.err, mem |-> w.mem,
                   acc |-> <<address, AsUsize(dest.val)>>]
             ELSE [ok |-> FALSE, err |-> dest.err, mem |-> m, acc |-> <<address>>]
      ELSE [ok |-> FALSE, err |-> InvalidWriteMode(mode), mem |-> m, acc |-> <<>>]

\* the closure pop_mode: the mode of the lowest digit, and inst without that digit
pop_mode(inst) ==
    [mode |-> Mode_try_from(Rem(inst, 10)), digit |-> Rem(inst, 10), inst |-> Quot(inst, 10)]

\* the expression  self.read(next_inst(), pop_mode()?)?
read_operand(m, address, inst) ==
    LET p == pop_mode(inst) IN
    IF ~p.mode.ok
      THEN [ok |-> FALSE, val |-> 0, err |-> p.mode.err, inst |-> p.inst,
            modes |-> <<p.digit>>, acc |-> <<>>]
      ELSE LET x == read(m, address, p.mode.val) IN
           [ok |-> x.r.ok, val |-> x.r.val, err |-> x.r.err, inst |-> p.inst,
            modes |-> <<p.digit>>, acc |-> x.acc]

\* the expression  self.write(next_inst(), pop_mode()?, value)?
write_operand(m, address, inst, value) ==
    LET p == pop_mode(inst) IN
    IF ~p.mode.ok
      THEN [ok |-> FALSE, err |-> p.mode.err, mem |-> m, modes |-> <<p.digit>>, acc |-> <<>>]
      ELSE LET w == write(m, address, p.mode.val, value) IN
           [ok |-> w.ok, err |-> w.err, mem |-> w.mem, modes |-> <<p.digit>>, acc |-> w.acc]

\* (mutant) the jump is taken on the opposite condition
jump_if_inverted(m, nonzero, address, inst) ==
    LET c == read_operand(m, address, inst) IN
    IF ~c.ok
      THEN [ok |-> FALSE, err |-> c.err, some |-> FALSE, target |-> 0,
            modes |-> c.modes, acc |-> c.acc]
      ELSE
    LET zero == (c.val = 0)
        t == read_operand(m, address + 1, c.inst) IN
    IF ~t.ok
      THEN [ok |-> FALSE, err |-> t.err, some |-> FALSE, target |-> 0,
            modes |-> c.modes \o t.modes, acc |-> c.acc \o t.acc]
      ELSE [ok |-> TRUE, err |-> NoError, some |-> (zero = nonzero),
            target |-> AsUsize(t.val),
            modes |-> c.modes \o t.modes, acc |-> c.acc \o t.acc]

\* vm/mod.rs: Computer::jump_if; address is what the first next_inst() returns
jump_if(m, nonzero, address, inst) ==
    LET c == read_operand(m, address, inst) IN
    IF ~c.ok
      THEN [ok |-> FALSE, err |-> c.err, some |-> FALSE, target |-> 0,
            modes |-> c.modes, acc |-> c.acc]
      ELSE
    LET zero == (c.val = 0)
        t == read_operand(m, address + 1, c.inst) IN
    IF ~t.ok
      THEN [ok |-> FALSE, err |-> t.err, some |-> FALSE, target |-> 0,
            modes |-> c.modes \o t.modes, acc |-> c.acc \o t.acc]
      ELSE [ok |-> TRUE, err |-> NoError, some |-> (zero # nonzero),
            target |-> AsUsize(t.val),
            modes |-> c.modes \o t.modes, acc |-> c.acc \o t.acc]

\* (mutant) the comparison takes its operands the other way round
Cmp_reversed(a, b) == IF b < a THEN "Less" ELSE IF a = b THEN "Equal" ELSE "Greater"

\* a.cmp(&b)
Cmp(a, b) == IF a < b THEN "Less" ELSE IF a = b THEN "Equal" ELSE "Greater"

\* vm/mod.rs: Computer::write_if
write_if(m, order, address, inst) ==
    LET a == read_operand(m, address, inst) IN
    IF ~a.ok
      THEN [ok |-> FALSE, err |-> a.err, mem |-> m, modes |-> a.modes, acc |-> a.acc]
      ELSE
    LET b == read_operand(m, address + 1, a.inst) IN
    IF ~b.ok
      THEN [ok |-> FALSE, err |-> b.err, mem |-> m,
            modes |-> a.modes \o b.modes, acc |-> a.acc \o b.acc]
      ELSE
    LET value == IF Cmp(a.val, b.val) = order THEN 1 ELSE 0
        w == write_operand(m, address + 2, b.inst, value) IN
    [ok |-> w.ok, err |-> w.err, mem |-> w.mem,
     modes |-> a.modes \o b.modes \o w.modes, acc |-> a.acc \o b.acc \o w.acc]

---------------------------------------------------------------------------
(* vm/mod.rs: Computer::step.  The value is a record of everything the     *)
(* call did: the outcome (state: "Running", "Halted", "Err" with err, or   *)
(* "Panic" when the process aborts), the Computer and the read channel as  *)
(* the call leaves them (memory, ip, input) and as it found them (mem0,    *)
(* ip0, input0), and what it went through: the word fetched, the           *)
(* value handed to OpCode::try_from (op), the digits handed to             *)
(* Mode::try_from (modes), the memory addresses touched (acc), the number  *)
(* of read-channel calls (rd), the values handed to the write channel (wr) *)
(* and those it captured (pushed).                                         *)

Begin(m, ip0, inp) ==
    [state |-> "Running", err |-> NoError, memory |-> m, ip |-> ip0, input |-> inp,
     mem0 |-> m, ip0 |-> ip0, input0 |-> inp, fetched |-> FALSE, word |-> 0, op |-> 0,
     modes |-> <<>>, acc |-> <<>>, rd |-> 0, wr |-> <<>>, pushed |-> <<>>,
     overflowed |-> FALSE]

\* (mutant) the advanced ip is stored although the step fails
Fail_commits_ip(s, e) == [s EXCEPT !.state = "Err", !.err = e, !.ip = s.ip0 + 1]

\* an early return through "?": self.ip and the memory stay as they were
Fail(s, e) == [s EXCEPT !.state = "Err", !.err = e]

\* an arithmetic overflow in a build with overflow checks: a panic, the process is gone
Panic(s) == [s EXCEPT !.state = "Panic", !.overflowed = TRUE]

Saw(s, modes, acc) == [s EXCEPT !.modes = s.modes \o modes, !.acc = s.acc \o acc]

\* OpCode::Add and OpCode::Multiply
step_arith(s, inst, entry, answer, oc) ==
    LET a == read_operand(s.mem0, s.ip0 + 1, inst)
        s1 == Saw(s, a.modes, a.acc) IN
    IF ~a.ok THEN Fail(s1, a.err) ELSE
    LET b == read_operand(s.mem0, s.ip0 + 2, a.inst)
        s2 == Saw(s1, b.modes, b.acc) IN
    IF ~b.ok THEN Fail(s2, b.err) ELSE
    LET overflows == IF s.op = 1 THEN AddOverflows(a.val, b.val) ELSE MulOverflows(a.val, b.val)
        res == IF s.op = 1 THEN AddWrapped(a.val, b.val) ELSE MulWrapped(a.val, b.val) IN
    IF overflows /\ oc THEN Panic(s2) ELSE
    LET w == write_operand(s.mem0, s.ip0 + 3, b.inst, res)
        s3 == [Saw(s2, w.modes, w.acc) EXCEPT !.overflowed = overflows] IN
    IF ~w.ok THEN Fail(s3, w.err)
    ELSE [s3 EXCEPT !.memory = w.mem, !.ip = s.ip0 + 4]

\* (mutant) Input looks at the destination's mode before it calls the channel
step_input_checks_the_mode_first(s, inst, entry, answer, oc) ==
    LET p == pop_mode(inst)
        s1 == Saw(s, <<p.digit>>, <<>>) IN
    IF ~p.mode.ok THEN Fail(s1, p.mode.err) ELSE
    IF p.mode.val = Immediate THEN Fail(s1, InvalidWriteMode(Immediate)) ELSE
    LET c == read_channel(entry, s.input, answer)
        s2 == [s1 EXCEPT !.rd = 1, !.input = c.input] IN
    IF ~c.r.ok THEN Fail(s2, c.r.err) ELSE
    LET w == write(s.mem0, s.ip0 + 1, p.mode.val, c.r.val)
        s3 == Saw(s2, <<>>, w.acc) IN
    IF ~w.ok THEN Fail(s3, w.err)
    ELSE [s3 EXCEPT !.memory = w.mem, !.ip = s.ip0 + 2]

\* OpCode::Input
step_input(s, inst, entry, answer, oc) ==
    LET p == pop_mode(inst)
        s1 == Saw(s, <<p.digit>>, <<>>) IN
    IF ~p.mode.ok THEN Fail(s1, p.mode.err) ELSE
    LET c == read_channel(entry, s.input, answer)
        s2 == [s1 EXCEPT !.rd = 1, !.input = c.input] IN
    IF ~c.r.ok THEN Fail(s2, c.r.err) ELSE
    LET w == write(s.mem0, s.ip0 + 1, p.mode.val, c.r.val)
        s3 == Saw(s2, <<>>, w.acc) IN
    IF ~w.ok THEN Fail(s3, w.err)
    ELSE [s3 EXCEPT !.memory = w.mem, !.ip = s.ip0 + 2]

\* (mutant) Output emits its operand cell without resolving it through the mode
step_output_unresolved(s, inst, entry, answer, oc) ==
    LET a == read_operand(s.mem0, s.ip0 + 1, inst)
        s1 == Saw(s, a.modes, a.acc) IN
    IF ~a.ok THEN Fail(s1, a.err) ELSE
    LET c == write_channel(entry, s.mem0[s.ip0 + 2])
        s2 == [s1 EXCEPT !.wr = <<s.mem0[s.ip0 + 2]>>, !.pushed = c.pushed] IN
    IF ~c.r.ok THEN Fail(s2, c.r.err)
    ELSE [s2 EXCEPT !.ip = s.ip0 + 2]

\* OpCode::Output
step_output(s, inst, entry, answer, oc) ==
    LET a == read_operand(s.mem0, s.ip0 + 1, inst)
        s1 == Saw(s, a.modes, a.acc) IN
    IF ~a.ok THEN Fail(s1, a.err) ELSE
    LET c == write_channel(entry, a.val)
        s2 == [s1 EXCEPT !.wr = <<a.val>>, !.pushed = c.pushed] IN
    IF ~c.r.ok THEN Fail(s2, c.r.err)
    ELSE [s2 EXCEPT !.ip = s.ip0 + 2]

\* OpCode::JumpIfTrue and OpCode::JumpIfFalse
step_jump(s, inst, entry, answer, oc) ==
    LET j == jump_if(s.mem0, s.op = 5, s.ip0 + 1, inst)
        s1 == Saw(s, j.modes, j.acc) IN
    IF ~j.ok THEN Fail(s1, j.err)
    ELSE [s1 EXCEPT !.ip = IF j.some THEN j.target ELSE s.ip0 + 3]

\* OpCode::LessThan and OpCode::Equals
step_compare(s, inst, entry, answer, oc) ==
    LET w == write_if(s.mem0, IF s.op = 7 THEN "Less" ELSE "Equal", s.ip0 + 1, inst)
        s1 == Saw(s, w.modes, w.acc) IN
    IF ~w.ok THEN Fail(s1, w.err)
    ELSE [s1 EXCEPT !.memory = w.mem, !.ip = s.ip0 + 4]

\* (mutant) Halt stores the advanced ip before it returns
step_halt_moves_ip(s, inst, entry, answer, oc) ==
    [s EXCEPT !.state = "Halted", !.ip = s.ip0 + 1]

\* (mutant) Halt examines the mode digit above its opcode
step_halt_pops_a_mode(s, inst, entry, answer, oc) ==
    LET p == pop_mode(inst) IN
    IF ~p.mode.ok THEN Fail(Saw(s, <<p.digit>>, <<>>), p.mode.err)
    ELSE [s EXCEPT !.state = "Halted"]

\* OpCode::Halt: return Ok(State::Halted), before "self.ip = ip"
step_halt(s, inst, entry, answer, oc) == [s EXCEPT !.state = "Halted"]

\* the opcode value and the mode digits the word is split into (lines 66-67)
opcode_of(word) == Rem(word, 100)

\* (mutant) the opcode's two digits and one mode digit are dropped
modes_of_drops_a_digit(word) == Quot(word, 1000)

modes_of(word) == Quot(word, 100)

step(m, ip0, entry, inp, answer, oc) ==
    LET s0 == Begin(m, ip0, inp) IN
    \* next_inst(): ip += 1 on a usize, evaluated before the read of the word
    IF ip0 = UsizeMax /\ oc THEN Panic(s0) ELSE
    LET f == memory_read(m, ip0)
        s1 == [Saw(s0, <<>>, <<ip0>>) EXCEPT !.overflowed = (ip0 = UsizeMax)] IN
    IF ~f.ok THEN Fail(s1, f.err) ELSE
    LET s2 == [s1 EXCEPT !.fetched = TRUE, !.word = f.val, !.op = opcode_of(f.val)]
        op_code == OpCode_try_from(s2.op)
        inst == modes_of(f.val) IN
    IF ~op_code.ok THEN Fail(s2, op_code.err)
    ELSE CASE op_code.val \in {1, 2} -> step_arith(s2, inst, entry, answer, oc)
           [] op_code.val = 3 -> step_input(s2, inst, entry, answer, oc)
           [] op_code.val = 4 -> step_output(s2, inst, entry, answer, oc)
           [] op_code.val \in {5, 6} -> step_jump(s2, inst, entry, answer, oc)
           [] op_code.val \in {7, 8} -> step_compare(s2, inst, entry, answer, oc)
           [] op_code.val = 99 -> step_halt(s2, inst, entry, answer, oc)

---------------------------------------------------------------------------
(* The memory images and channel contents the model is run on *)

\* the programs of the tests and of the specification's examples
AddProgram == <<1, 0, 0, 0, 99>>
MultiplyProgram == <<2, 3, 0, 3, 99>>
ClassicProgram == <<1, 9, 10, 3, 2, 3, 11, 0, 99, 30, 40, 50>>
TestSimpleProgram == <<1, 4, 0, 0, 2, 0, 4, 0, 99>>
EchoProgram == <<3, 0, 4, 0, 99>>
\* two values read and written back in turn; an Add followed by an Output
EchoTwiceProgram == <<3, 0, 4, 0, 3, 0, 4, 0, 99>>
AddThenOutputProgram == <<1, 0, 0, 0, 4, 0, 99>>

\* instruction words: every opcode in several mode combinations, mode digits
\* other than 0 and 1, digits above the operands, unknown opcodes, negative words
Words ==
    {1, 101, 1001, 1101, 10001, 11101, 2, 102, 1102, 10102,
     3, 103, 4, 104, 5, 105, 1005, 1105, 6, 106, 1006, 1106,
     7, 107, 1107, 10007, 8, 108, 1108, 11108, 99, 199,
     201, 2001, 20001, 20101, 2101, 203, 903, 204, 2005, 2105, 306, 2007, 20008, 20108,
     299, 20099, 2004, 21105, 2003,
     0, 9, 10, 55, 98, 100, -1, -2, -50, -99, -101, -1101, MinValue, MaxValue}

\* operand cells: addresses inside the image, just past it, far past it, negative
Operands == {MinValue, -1, 0, 4, 5, MaxValue}

Images ==
    {AddProgram, MultiplyProgram, ClassicProgram, TestSimpleProgram, EchoProgram,
     EchoTwiceProgram, AddThenOutputProgram, <<>>}
      \cup {<<w, a, b, c, 99>> : w \in Words, a \in Operands, b \in Operands, c \in Operands}

\* a read channel nobody has called yet
Untouched == [taken |-> <<>>, dry |-> FALSE]

\* what the caller's read channel may answer when it is called: the next value
\* it holds, or that it holds none (and never more than MaxInput values)
Answers(inp) ==
    {Err(ReadingNotSupported)}
      \cup (IF Len(inp.taken) < MaxInput THEN {Ok(v) : v \in Operands} ELSE {})

NoResult == [returned |-> FALSE, ok |-> FALSE, val |-> 0, err |-> NoError]
Returned(r) == [returned |-> TRUE, ok |-> r.ok, val |-> r.val, err |-> r.err]

NoStep(m, ip0, inp) == [Begin(m, ip0, inp) EXCEPT !.state = "None"]

NoCall == [op |-> "none", address |-> 0, value |-> 0, before |-> <<>>, r |-> Ok(0)]

\* a second Computer: Computer::new(m), its caller's channels, the call made on
\* it (pc: "new" before the call, then as pc above), what the call returned and
\* the number n of steps it has taken
NewTwin(m) ==
    [pc |-> "new", memory |-> m, ip |-> 0, input |-> Untouched, output |-> <<>>,
     result |-> NoResult, n |-> 0]
NoTwin == [NewTwin(<<>>) EXCEPT !.pc = "none"]

\* Option<u32>
None == [some |-> FALSE, val |-> 0]
Some(v) == [some |-> TRUE, val |-> v]

\* no function of a day's solution has been called
NoPuzzle == [fn |-> "none", num |-> 0, r |-> None]

---------------------------------------------------------------------------
(* The state machine *)

\* Computer::new(image)
Init ==
    /\ image \in Images
    /\ memory = image
    /\ ip = 0
    /\ overflow_checks = "unobserved"
    /\ pc = "idle"
    /\ api = "none"
    /\ input = Untouched
    /\ output = <<>>
    /\ result = NoResult
    /\ last = NoStep(image, 0, Untouched)
    /\ calls = 0
    /\ steps = 0
    /\ mcall = NoCall
    /\ twin = NoTwin
    /\ puzzle = NoPuzzle

\* a call enters run_all with its channels
Enter(entry) ==
    /\ pc = "idle"
    /\ calls < MaxCalls
    /\ pc' = "run_all"
    /\ api' = entry
    /\ input' = Untouched
    /\ output' = <<>>
    /\ result' = NoResult
    /\ last' = NoStep(memory, ip, Untouched)
    /\ calls' = calls + 1
    /\ UNCHANGED <<memory, ip, image, overflow_checks, steps, mcall, twin, puzzle>>

\* Computer::execute(): run_all with the two stubs
Execute == Enter("execute")

\* Computer::run(read, write) with the channels of day05.rs
Run == Enter("run")

\* (mutant) execute() answers with the cell at address 1
Return_reads_cell_one(entry, m, r) ==
    IF entry = "execute" /\ r.ok THEN Returned(memory_read(m, 1)) ELSE Returned(r)

\* (mutant) a failure of run_all is reported as a failure of another kind
Return_replaces_the_error(entry, m, r) ==
    IF r.ok THEN (IF entry = "execute" THEN Returned(memory_read(m, 0)) ELSE Returned(r))
    ELSE Returned(Err(SegFault(0)))

\* what the call returns when run_all returns r
\*   execute: self.run_all(..)?; Ok(self.memory.read(0)?)       run: self.run_all(..)
Return(entry, m, r) ==
    IF entry = "execute" /\ r.ok THEN Returned(memory_read(m, 0)) ELSE Returned(r)

\* the builds (overflow checks on = TRUE) that agree with what has been observed
Builds(observed) == IF observed = "unobserved" THEN BOOLEAN ELSE {observed = "on"}

\* the word step() is about to fetch has one of these opcode values
Fetches(m, ip0, ops) == ip0 < Len(m) /\ opcode_of(m[ip0 + 1]) \in ops

\* the answers of the read channel that make a difference to the coming step:
\* all of them when it is an Input, and otherwise any one
AnswersThatMatter == IF Fetches(memory, ip, {3}) THEN Answers(input) ELSE {reading_not_supported}

\* the builds that make a difference to the coming step: those not ruled out yet
\* when it does arithmetic (Add, Multiply, or next_inst at the last address), and
\* otherwise any one
BuildsThatMatter ==
    IF ip = UsizeMax \/ Fetches(memory, ip, {1, 2}) THEN Builds(overflow_checks) ELSE {TRUE}

\* one iteration of run_all's loop: step(), then continue, return or propagate
Step ==
    /\ pc = "run_all"
    /\ steps < MaxSteps
    /\ \E answer \in AnswersThatMatter, oc \in BuildsThatMatter :
       \E s \in {step(memory, ip, api, input, answer, oc)} :
         /\ overflow_checks' = IF s.overflowed THEN (IF oc THEN "on" ELSE "off")
                                                ELSE overflow_checks
         /\ memory' = s.memory
         /\ ip' = s.ip
         /\ input' = s.input
         /\ output' = output \o s.pushed
         /\ last' = s
         /\ pc' = CASE s.state = "Running" -> "run_all"
                    [] s.state = "Halted" -> "idle"
                    [] s.state = "Err" -> "idle"
                    [] s.state = "Panic" -> "aborted"
         /\ result' = CASE s.state = "Running" -> result
                        [] s.state = "Halted" -> Return(api, s.memory, Ok(0))
                        [] s.state = "Err" -> Return(api, s.memory, Err(s.err))
                        [] s.state = "Panic" -> result
    /\ steps' = steps + 1
    /\ UNCHANGED <<image, api, calls, mcall, twin, puzzle>>

Next == Execute \/ Run \/ Step

Spec == Init /\ [][Next]_vars

---------------------------------------------------------------------------
(* The Memory trait on its own: read and write called directly on a        *)
(* Vec<Value>, with any address and value                                  *)

\* the vectors of at most MaxVecLen cells, over a few values
Cells == {-1, 0, 7}

Vectors == UNION {[1..n -> Cells] : n \in 0..MaxVecLen}

\* addresses inside every vector, at and just past the end, and far past it
Addresses == 0..(MaxVecLen + 1) \cup {MaxValue, UsizeMax}

InitMemory ==
    /\ memory \in Vectors
    /\ image = memory
    /\ ip = 0
    /\ overflow_checks = "unobserved"
    /\ pc = "idle"
    /\ api = "none"
    /\ input = Untouched
    /\ output = <<>>
    /\ result = NoResult
    /\ last = NoStep(<<>>, 0, Untouched)
    /\ calls = 0
    /\ steps = 0
    /\ mcall = NoCall
    /\ twin = NoTwin
    /\ puzzle = NoPuzzle

\* Memory::read(&self, address)
MemoryRead ==
    \E a \in Addresses :
       /\ mcall' = [op |-> "read", address |-> a, value |-> 0, before |-> memory,
                    r |-> memory_read(memory, a)]
       /\ UNCHANGED <<memory, ip, image, overflow_checks, pc, api, input, output, result,
                      last, calls, steps, twin, puzzle>>

\* Memory::write(&mut self, address, value)
MemoryWrite ==
    \E a \in Addresses, v \in Cells :
       \E w \in {memory_write(memory, a, v)} :
          /\ memory' = w.mem
          /\ mcall' = [op |-> "write", address |-> a, value |-> v, before |-> memory,
                       r |-> [ok |-> w.ok, val |-> 0, err |-> w.err]]
          /\ UNCHANGED <<ip, image, overflow_checks, pc, api, input, output, result,
                         last, calls, steps, twin, puzzle>>

NextMemory == MemoryRead \/ MemoryWrite

SpecMemory == InitMemory /\ [][NextMemory]_vars

---------------------------------------------------------------------------
(* Two Computers built from the same image in one process, each given the  *)
(* same call with channels of its own.  They take their steps in turn: one *)
(* takes its k-th step, then the other its k-th.                           *)

InitTwin ==
    /\ image \in Images
    /\ memory = image
    /\ ip = 0
    /\ overflow_checks = "unobserved"
    /\ pc = "idle"
    /\ api = "none"
    /\ input = Untouched
    /\ output = <<>>
    /\ result = NoResult
    /\ last = NoStep(image, 0, Untouched)
    /\ calls = 0
    /\ steps = 0
    /\ mcall = NoCall
    /\ twin = NewTwin(image)
    /\ puzzle = NoPuzzle

\* the call on the first Computer
TwinCall ==
    /\ calls = 0
    /\ (Execute \/ Run)

\* the same call on the twin
TwinEnter ==
    /\ pc = "run_all" /\ steps = 0
    /\ twin.pc = "new"
    /\ twin' = [twin EXCEPT !.pc = "run_all"]
    /\ UNCHANGED <<memory, ip, image, overflow_checks, pc, api, input, output, result, last,
                   calls, steps, mcall, puzzle>>

\* one iteration of run_all's loop on the Computer whose turn it is
TwinStep ==
    /\ twin.pc # "new"
    /\ steps <= twin.n \/ twin.pc # "run_all"
    /\ Step

\* the turn passes to the other Computer, once this one is a step ahead or its
\* call is over: the variables of the Computer now hold the other one
TwinTurn ==
    /\ twin.pc = "run_all"
    /\ steps > twin.n \/ pc # "run_all"
    /\ twin' = [pc |-> pc, memory |-> memory, ip |-> ip, input |-> input, output |-> output,
                result |-> result, n |-> steps]
    /\ pc' = twin.pc
    /\ memory' = twin.memory
    /\ ip' = twin.ip
    /\ input' = twin.input
    /\ output' = twin.output
    /\ result' = twin.result
    /\ steps' = twin.n
    /\ UNCHANGED <<image, overflow_checks, api, last, calls, mcall, puzzle>>

NextTwin == TwinCall \/ TwinEnter \/ TwinStep \/ TwinTurn

SpecTwin == InitTwin /\ [][NextTwin]_vars

---------------------------------------------------------------------------
(* The first interpreter, src/src/vm.rs: Add, Multiply and Halt, operands   *)
(* in position mode only, the whole word taken as the opcode.  Its execute  *)
(* is the loop itself; one iteration is one minimal_step, whose value holds *)
(* the outcome (state, err), the Computer as the iteration leaves it, the   *)
(* call it made on Memory::write (call) and whether the sum or product      *)
(* overflowed.  Its ip only ever grows by 4 from 0 and stays far below the  *)
(* width of a usize, so self.ip + 1..3 are exact.                           *)

\* vm.rs: OpCode::try_from, on the whole word
minimal_OpCode_try_from(value) ==
    IF value \in {1, 2, 99} THEN Ok(value) ELSE Err(InvalidOpCode(value))

\* (mutant) the operand cell is taken as the value itself
minimal_read_immediate(m, address) == memory_read(m, address)

\* vm.rs: Computer::read
minimal_read(m, address) ==
    LET cell == memory_read(m, address) IN
    IF cell.ok THEN memory_read(m, AsUsize(cell.val)) ELSE cell

\* vm.rs: Computer::write
minimal_write(m, address, value) == memory_write(m, address, value)

minimal_outcome(state, e, m, ip0, call, overflowed) ==
    [state |-> state, err |-> e, memory |-> m, ip |-> ip0, call |-> call,
     overflowed |-> overflowed]

\* the arms OpCode::Add and OpCode::Multiply: the destination cell is read first,
\* then the two operands, then the sum or product is formed and written
minimal_arith(m, ip0, op, oc) ==
    LET dest == memory_read(m, ip0 + 3) IN
    IF ~dest.ok THEN minimal_outcome("Err", dest.err, m, ip0, NoCall, FALSE) ELSE
    LET a == minimal_read(m, ip0 + 1) IN
    IF ~a.ok THEN minimal_outcome("Err", a.err, m, ip0, NoCall, FALSE) ELSE
    LET b == minimal_read(m, ip0 + 2) IN
    IF ~b.ok THEN minimal_outcome("Err", b.err, m, ip0, NoCall, FALSE) ELSE
    LET overflows == IF op = 1 THEN AddOverflows(a.val, b.val) ELSE MulOverflows(a.val, b.val)
        res == IF op = 1 THEN AddWrapped(a.val, b.val) ELSE MulWrapped(a.val, b.val) IN
    IF overflows /\ oc THEN minimal_outcome("Panic", NoError, m, ip0, NoCall, TRUE) ELSE
    LET w == minimal_write(m, AsUsize(dest.val), res)
        call == [op |-> "write", address |-> AsUsize(dest.val), value |-> res, before |-> m,
                 r |-> [ok |-> w.ok, val |-> 0, err |-> w.err]] IN
    IF ~w.ok THEN minimal_outcome("Err", w.err, m, ip0, call, overflows)
    ELSE minimal_outcome("Running", NoError, w.mem, ip0 + 4, call, overflows)

\* one iteration of the loop of vm.rs: Computer::execute
minimal_step(m, ip0, oc) ==
    LET word == memory_read(m, ip0) IN
    IF ~word.ok THEN minimal_outcome("Err", word.err, m, ip0, NoCall, FALSE) ELSE
    LET inst == minimal_OpCode_try_from(word.val) IN
    IF ~inst.ok THEN minimal_outcome("Err", inst.err, m, ip0, NoCall, FALSE)
    ELSE IF inst.val = 99 THEN minimal_outcome("Halted", NoError, m, ip0, NoCall, FALSE)
    ELSE minimal_arith(m, ip0, inst.val, oc)

\* what vm.rs: Computer::execute returns when its loop ends: Ok(self.memory.read(0)?)
\* after the break, the error of "?" otherwise
minimal_return(s) ==
    IF s.state = "Halted" THEN Returned(memory_read(s.memory, 0)) ELSE Returned(Err(s.err))

InitMinimal ==
    /\ image \in Images
    /\ memory = image
    /\ ip = 0
    /\ overflow_checks = "unobserved"
    /\ pc = "idle"
    /\ api = "none"
    /\ input = Untouched
    /\ output = <<>>
    /\ result = NoResult
    /\ last = NoStep(image, 0, Untouched)
    /\ calls = 0
    /\ steps = 0
    /\ mcall = NoCall
    /\ twin = NewTwin(image)
    /\ puzzle = NoPuzzle

\* execute() of vm/mod.rs is called on the one Computer
FullExecute ==
    /\ calls = 0
    /\ Execute

\* one iteration of the loop of execute in vm.rs, the k-th once vm/mod.rs has
\* taken its k-th step or is done
MinimalStep ==
    /\ twin.pc = "run_all"
    /\ twin.n < steps \/ pc # "run_all"
    /\ twin.n < MaxSteps
    /\ \E oc \in (IF Fetches(twin.memory, twin.ip, {1, 2}) THEN Builds(overflow_checks)
                                                            ELSE {TRUE}) :
       \E s \in {minimal_step(twin.memory, twin.ip, oc)} :
         /\ overflow_checks' = IF s.overflowed THEN (IF oc THEN "on" ELSE "off")
                                                ELSE overflow_checks
         /\ twin' = [twin EXCEPT
                       !.pc = CASE s.state = "Running" -> "run_all"
                                [] s.state \in {"Halted", "Err"} -> "idle"
                                [] s.state = "Panic" -> "aborted",
                       !.memory = s.memory,
                       !.ip = s.ip,
                       !.result = IF s.state \in {"Halted", "Err"} THEN minimal_return(s)
                                                                   ELSE twin.result,
                       !.n = twin.n + 1]
         /\ mcall' = s.call
    /\ UNCHANGED <<memory, ip, image, pc, api, input, output, result, last, calls, steps,
                   puzzle>>

\* TwinEnter is here the call of vm.rs's execute() on the other Computer, built by
\* vm.rs from the same image, and TwinStep the step of vm/mod.rs
NextMinimal == FullExecute \/ TwinEnter \/ TwinStep \/ MinimalStep

SpecMinimal == InitMinimal /\ [][NextMinimal]_vars

\* the images the two loops are followed on to their end: the programs of the
\* tests, and every opcode in position and in immediate mode over operands
\* inside the image, outside it, and large enough to overflow
ProgressWords == {1, 1101, 2, 1102, 3, 103, 4, 104, 5, 1005, 1105, 1106, 7, 1108, 2004, 99, 0}

ProgressOperands == {-1, 0, 4, MaxValue}

ProgressImages ==
    {AddProgram, MultiplyProgram, ClassicProgram, TestSimpleProgram, EchoProgram,
     EchoTwiceProgram, AddThenOutputProgram, <<>>}
      \cup {<<w, a, b, c, 99>> : w \in ProgressWords, a \in ProgressOperands,
                                 b \in ProgressOperands, c \in ProgressOperands}

InitProgress ==
    /\ InitMinimal
    /\ image \in ProgressImages

\* no jump has been taken in the run so far
NoJumpTaken == ~(last.state = "Running" /\ last.op \in {5, 6} /\ ip # last.ip0 + 3)

\* one iteration of run_all's loop in a run in which no jump has been taken: a
\* run is followed up to and including its first taken jump
ProgressStep ==
    /\ NoJumpTaken
    /\ TwinStep

\* run_all's loop can go round once more: step() returns or aborts on every
\* state, so ProgressStep is enabled exactly when its guards hold
LoopReady ==
    /\ NoJumpTaken
    /\ twin.pc # "new"
    /\ steps <= twin.n \/ twin.pc # "run_all"
    /\ pc = "run_all"
    /\ steps < MaxSteps

\* one call of execute() or run() on the Computer of vm/mod.rs and one of
\* execute() on that of vm.rs; neither loop stops between two iterations
NextProgress == TwinCall \/ TwinEnter \/ ProgressStep \/ MinimalStep

SpecProgress ==
    /\ InitProgress /\ [][NextProgress]_vars
    /\ WF_vars(TwinEnter) /\ WF_vars(MinimalStep)
    \* weak fairness of ProgressStep: an iteration counts steps up, so the loop
    \* cannot go round for ever, and fairness is that it never stays ready
    /\ []<>~LoopReady

---------------------------------------------------------------------------
(* src/src/day04.rs: validate(num: u32) -> Option<u32>.  The numbers stay   *)
(* below 2^31 and the loop only divides, so u32 arithmetic is exact.        *)

\* the digits the six-digit arguments are made of run from 0 to MaxDigit
MaxDigit == 4

\* (mutant) the longest cluster is kept
update_shortest_keeps_the_longest(shortest_cluster, curr_cluster) ==
    IF ~shortest_cluster.some THEN Some(curr_cluster)
    ELSE IF curr_cluster > shortest_cluster.val THEN Some(curr_cluster)
    ELSE shortest_cluster

\* the match on shortest_cluster (lines 22-26)
update_shortest(shortest_cluster, curr_cluster) ==
    IF ~shortest_cluster.some THEN Some(curr_cluster)
    ELSE IF curr_cluster < shortest_cluster.val THEN Some(curr_cluster)
    ELSE shortest_cluster

\* the loop "while num > 0" (lines 13-33), from the state its variables are in
RECURSIVE validate_loop(_, _, _, _)
validate_loop(num, last_digit, curr_cluster, shortest_cluster) ==
    IF ~(num > 0) THEN Some(IF shortest_cluster.some THEN shortest_cluster.val ELSE 1)
    ELSE LET num1 == num \div 10
             curr == num1 % 10
         IN IF curr > last_digit THEN None
            ELSE IF curr = last_digit
              THEN validate_loop(num1, curr, curr_cluster + 1, shortest_cluster)
              ELSE validate_loop(num1, curr, 1,
                                 IF curr_cluster > 1
                                   THEN update_shortest(shortest_cluster, curr_cluster)
                                   ELSE shortest_cluster)

validate(num) ==
    IF ~(num >= 100000 /\ num <= 999999) THEN None
    ELSE validate_loop(num, num % 10, 1, None)

\* the arguments of tests::test_validate
TestNumbers == {122456, 123456, 111111, 223450, 123789, 359288, 111122}

\* arguments outside the six-digit range, on both sides and at its edges
OutOfRange == {0, 1, 9, 11, 12345, 99999, 1000000, 1111111, 1234567, 2147483647}

\* the number written d1 d2 d3 d4 d5 d6
SixDigits(d1, d2, d3, d4, d5, d6) ==
    100000 * d1 + 10000 * d2 + 1000 * d3 + 100 * d4 + 10 * d5 + d6

Numbers ==
    TestNumbers \cup OutOfRange \cup {100000, 999999}
      \cup {SixDigits(d1, d2, d3, d4, d5, d6) :
              d1 \in 1..MaxDigit, d2 \in 0..MaxDigit, d3 \in 0..MaxDigit,
              d4 \in 0..MaxDigit, d5 \in 0..MaxDigit, d6 \in 0..MaxDigit}

InitValidate ==
    /\ memory = <<>>
    /\ image = <<>>
    /\ ip = 0
    /\ overflow_checks = "unobserved"
    /\ pc = "idle"
    /\ api = "none"
    /\ input = Untouched
    /\ output = <<>>
    /\ result = NoResult
    /\ last = NoStep(<<>>, 0, Untouched)
    /\ calls = 0
    /\ steps = 0
    /\ mcall = NoCall
    /\ twin = NoTwin
    /\ \E num \in Numbers : puzzle = [fn |-> "none", num |-> num, r |-> None]

\* validate(num) is called
Validate ==
    /\ puzzle.fn = "none"
    /\ puzzle' = [fn |-> "validate", num |-> puzzle.num, r |-> validate(puzzle.num)]
    /\ UNCHANGED <<memory, ip, image, overflow_checks, pc, api, input, output, result, last,
                   calls, steps, mcall, twin>>

NextValidate == Validate

SpecValidate == InitValidate /\ [][NextValidate]_vars

---------------------------------------------------------------------------
(* src/src/day03.rs: Wire::iter_points and Wire::intersections.  A Point is *)
(* the pair <<x, y>>, a Wire the record of its start and its segments, a    *)
(* Segment the record of its direction and length.  The wires are short and *)
(* start near the origin, so coordinates and distances stay far from the    *)
(* ends of i64 and usize.                                                   *)

\* the segments of the wires are of length at most MaxLength
MaxLength == 2

Directions == {"Left", "Right", "Up", "Down"}

\* Direction::as_offset
as_offset(direction, length) ==
    CASE direction = "Left" -> <<0 - length, 0>>
      [] direction = "Right" -> <<length, 0>>
      [] direction = "Up" -> <<0, length>>
      [] direction = "Down" -> <<0, 0 - length>>

\* StepIter: the offsets next() hands out until steps >= segment.length
iter_steps(segment) ==
    [k \in 1..(IF segment.length > 0 THEN segment.length ELSE 0) |->
        as_offset(segment.direction, 1)]

\* segments.iter().flat_map(|segment| segment.iter_steps())
RECURSIVE flat_map_steps(_)
flat_map_steps(segments) ==
    IF segments = <<>> THEN <<>>
    ELSE iter_steps(Head(segments)) \o flat_map_steps(Tail(segments))

\* .map(move |offset| { curr += offset; curr })
RECURSIVE walk(_, _)
walk(curr, offsets) ==
    IF offsets = <<>> THEN <<>>
    ELSE LET next == <<curr[1] + Head(offsets)[1], curr[2] + Head(offsets)[2]>>
         IN <<next>> \o walk(next, Tail(offsets))

iter_points(wire) == walk(wire.start, flat_map_steps(wire.segments))

\* (mutant) a point met again is entered with the later distance
entry_keeps_the_latest(points, point, dist) ==
    IF point \in DOMAIN points THEN [points EXCEPT ![point] = dist]
    ELSE points @@ (point :> dist)

\* points.entry(point).and_modify(..).or_insert(dist)
entry(points, point, dist) ==
    IF point \in DOMAIN points
      THEN IF points[point] > dist THEN [points EXCEPT ![point] = dist] ELSE points
      ELSE points @@ (point :> dist)

\* self.iter_points().enumerate().for_each(..): the map after the points from
\* index dist (0-based) on have been entered
RECURSIVE for_each_entry(_, _, _)
for_each_entry(points, path, dist) ==
    IF path = <<>> THEN points
    ELSE for_each_entry(entry(points, Head(path), dist), Tail(path), dist + 1)

\* other.iter_points().enumerate().filter_map(..), from index curr_dist on
RECURSIVE filter_map_points(_, _, _)
filter_map_points(points, path, curr_dist) ==
    IF path = <<>> THEN <<>>
    ELSE (IF Head(path) \in DOMAIN points
            THEN <<<<Head(path), curr_dist + points[Head(path)] + 2>>>>
            ELSE <<>>)
         \o filter_map_points(points, Tail(path), curr_dist + 1)

\* Wire::intersections, collected
intersections(self, other) ==
    filter_map_points(for_each_entry(<<>>, iter_points(self), 0), iter_points(other), 0)

Segment(direction, length) == [direction |-> direction, length |-> length]
Wire(start, segments) == [start |-> start, segments |-> segments]

\* the wires of tests::test_iters and tests::test_intersections
TestItersWire ==
    Wire(<<1, 2>>, <<Segment("Right", 3), Segment("Up", 2), Segment("Down", 1),
                     Segment("Left", 2)>>)
TestWireA == Wire(<<1, 1>>, <<Segment("Right", 3), Segment("Up", 2)>>)
TestWireB == Wire(<<1, 1>>, <<Segment("Up", 1), Segment("Right", 4)>>)

Segments == {Segment(d, n) : d \in Directions, n \in 0..MaxLength}

\* the wires of no, one or two segments from a start
WiresFrom(start) ==
    {Wire(start, segs) : segs \in UNION {[1..n -> Segments] : n \in {0, 1, 2}}}

\* a wire from the origin with one from the origin or from one step to its right,
\* and the wires of the tests
WirePairs ==
    (WiresFrom(<<0, 0>>) \X (WiresFrom(<<0, 0>>) \cup WiresFrom(<<1, 0>>)))
      \cup {<<TestWireA, TestWireB>>, <<TestWireB, TestWireA>>,
            <<TestItersWire, TestWireA>>, <<TestItersWire, TestItersWire>>}

InitWires ==
    /\ memory = <<>>
    /\ image = <<>>
    /\ ip = 0
    /\ overflow_checks = "unobserved"
    /\ pc = "idle"
    /\ api = "none"
    /\ input = Untouched
    /\ output = <<>>
    /\ result = NoResult
    /\ last = NoStep(<<>>, 0, Untouched)
    /\ calls = 0
    /\ steps = 0
    /\ mcall = NoCall
    /\ twin = NoTwin
    /\ \E w \in WirePairs : puzzle = [fn |-> "none", a |-> w[1], b |-> w[2], r |-> <<>>]

\* a.intersections(&b).collect()
Intersections ==
    /\ puzzle.fn = "none"
    /\ puzzle' = [puzzle EXCEPT !.fn = "intersections",
                                !.r = intersections(puzzle.a, puzzle.b)]
    /\ UNCHANGED <<memory, ip, image, overflow_checks, pc, api, input, output, result, last,
                   calls, steps, mcall, twin>>

NextWires == Intersections

SpecWires == InitWires /\ [][NextWires]_vars

---------------------------------------------------------------------------
(* src/src/day06.rs: OrbitTree::build after parsing, and                    *)
(* OrbitTree::distance.  The ego_tree Tree is the sequence of its nodes in   *)
(* the order they were appended, a NodeId the position in it, a node the     *)
(* record of its value (the Body's name) and its parent's id (0 at the root).*)

\* HashMap::insert
insert(map, key, value) ==
    IF key \in DOMAIN map THEN [map EXCEPT ![key] = value] ELSE map @@ (key :> value)

\* satellites.entry(orbit.object).or_insert_with(|| vec![]).push(orbit.satellite)
push_satellite(satellites, orbit) ==
    IF orbit.object \in DOMAIN satellites
      THEN [satellites EXCEPT ![orbit.object] = Append(@, orbit.satellite)]
      ELSE satellites @@ (orbit.object :> <<orbit.satellite>>)

RECURSIVE collect_satellites(_, _)
collect_satellites(satellites, orbits) ==
    IF orbits = <<>> THEN satellites
    ELSE collect_satellites(push_satellite(satellites, Head(orbits)), Tail(orbits))

\* build_subtree, and its loop over the satellites of one object
RECURSIVE build_subtree(_, _, _)
RECURSIVE build_satellites(_, _, _, _)
build_subtree(t, node, satellites) ==
    IF t.tree[node].value \in DOMAIN satellites
      THEN build_satellites(t, node, satellites[t.tree[node].value], satellites)
      ELSE t

build_satellites(t, node, object_satellites, satellites) ==
    IF object_satellites = <<>> THEN t
    ELSE LET satellite == Head(object_satellites)
             id == Len(t.tree) + 1
             appended == [tree |-> Append(t.tree, [value |-> satellite, parent |-> node]),
                          node_ids |-> insert(t.node_ids, satellite, id)]
         IN build_satellites(build_subtree(appended, id, satellites), node,
                             Tail(object_satellites), satellites)

\* OrbitTree::build, from the parsed orbits
build(orbits) ==
    build_subtree([tree |-> <<[value |-> "COM", parent |-> 0]>>, node_ids |-> ("COM" :> 1)],
                  1, collect_satellites(<<>>, orbits))

\* (mutant) the walk up starts at the node itself
RECURSIVE ancestors_from_the_node(_, _)
ancestors_from_the_node(tree, id) ==
    IF id = 0 THEN <<>> ELSE <<id>> \o ancestors_from_the_node(tree, tree[id].parent)

\* NodeRef::ancestors: the parent, its parent, .. up to the root
RECURSIVE ancestors(_, _)
ancestors(tree, id) ==
    IF tree[id].parent = 0 THEN <<>>
    ELSE <<tree[id].parent>> \o ancestors(tree, tree[id].parent)

\* Result<usize> with anyhow's message
Distance(v) == [ok |-> TRUE, val |-> v, err |-> ""]
Anyhow(message) == [ok |-> FALSE, val |-> 0, err |-> message]

\* the closure parents
parents(t, node) ==
    IF node \notin DOMAIN t.node_ids \/ t.node_ids[node] \notin 1..Len(t.tree)
      THEN [ok |-> FALSE, nodes |-> <<>>]
      ELSE [ok |-> TRUE, nodes |-> ancestors(t.tree, t.node_ids[node])]

\* .enumerate().map(..).collect::<HashMap<_, _>>(), from index dist on
RECURSIVE collect_parent_dist(_, _, _, _)
collect_parent_dist(map, tree, nodes, dist) ==
    IF nodes = <<>> THEN map
    ELSE collect_parent_dist(insert(map, tree[Head(nodes)].value, dist), tree, Tail(nodes),
                             dist + 1)

\* .enumerate().filter_map(..).next(), from index dist2 on
RECURSIVE first_common(_, _, _, _)
first_common(parent_dist, tree, nodes, dist2) ==
    IF nodes = <<>> THEN Anyhow("Nodes don't have the same root")
    ELSE IF tree[Head(nodes)].value \in DOMAIN parent_dist
      THEN Distance(parent_dist[tree[Head(nodes)].value] + dist2)
      ELSE first_common(parent_dist, tree, Tail(nodes), dist2 + 1)

\* OrbitTree::distance
distance(t, a, b) ==
    LET pa == parents(t, a) IN
    IF ~pa.ok THEN Anyhow("Node not found") ELSE
    LET pb == parents(t, b) IN
    IF ~pb.ok THEN Anyhow("Node not found")
    ELSE first_common(collect_parent_dist(<<>>, t.tree, pa.nodes, 0), t.tree, pb.nodes, 0)

Orbit(object, satellite) == [object |-> object, satellite |-> satellite]

\* the map of tests::test_p2
TestOrbits ==
    <<Orbit("COM", "B"), Orbit("B", "C"), Orbit("C", "D"), Orbit("D", "E"), Orbit("E", "F"),
      Orbit("B", "G"), Orbit("G", "H"), Orbit("D", "I"), Orbit("E", "J"), Orbit("J", "K"),
      Orbit("K", "L"), Orbit("K", "YOU"), Orbit("I", "SAN")>>

\* the bodies of the small maps, in the order their orbits are listed
Bodies == <<"B", "C", "D", "E">>

\* the orbits listed for a choice of objects, one per body ("" for a body that
\* is not mentioned)
RECURSIVE OrbitsOf(_, _)
OrbitsOf(objects, k) ==
    IF k > Len(Bodies) THEN <<>>
    ELSE (IF objects[k] = "" THEN <<>> ELSE <<Orbit(objects[k], Bodies[k])>>)
         \o OrbitsOf(objects, k + 1)

\* the maps in which every body orbits at most one object, other than itself
OrbitMaps ==
    {OrbitsOf(objects, 1) :
        objects \in {o \in [1..Len(Bodies) -> {"", "COM", "B", "C", "D", "E"}] :
                        \A k \in 1..Len(Bodies) : o[k] # Bodies[k]}}

\* the names asked about: the root, the bodies, and one no map mentions
Names == {"COM", "B", "C", "D", "E", "Z"}

DistanceCalls ==
    {[orbits |-> m, a |-> a, b |-> b] : m \in OrbitMaps, a \in Names, b \in Names}
      \cup {[orbits |-> TestOrbits, a |-> a, b |-> b] :
               a \in {"YOU", "SAN", "L", "COM", "Z"}, b \in {"YOU", "SAN", "L", "COM", "Z"}}

InitOrbits ==
    /\ memory = <<>>
    /\ image = <<>>
    /\ ip = 0
    /\ overflow_checks = "unobserved"
    /\ pc = "idle"
    /\ api = "none"
    /\ input = Untouched
    /\ output = <<>>
    /\ result = NoResult
    /\ last = NoStep(<<>>, 0, Untouched)
    /\ calls = 0
    /\ steps = 0
    /\ mcall = NoCall
    /\ twin = NoTwin
    /\ \E c \in DistanceCalls :
          puzzle = [fn |-> "none", orbits |-> c.orbits, a |-> c.a, b |-> c.b,
                    r |-> Anyhow(""), back |-> Anyhow("")]

\* the tree is built, then tree.distance(a, b) and tree.distance(b, a) are called
OrbitDistance ==
    /\ puzzle.fn = "none"
    /\ \E t \in {build(puzzle.orbits)} :
          puzzle' = [puzzle EXCEPT !.fn = "distance",
                                   !.r = distance(t, puzzle.a, puzzle.b),
                                   !.back = distance(t, puzzle.b, puzzle.a)]
    /\ UNCHANGED <<memory, ip, image, overflow_checks, pc, api, input, output, result, last,
                   calls, steps, mcall, twin>>

NextOrbits == OrbitDistance

SpecOrbits == InitOrbits /\ [][NextOrbits]_vars

---------------------------------------------------------------------------
(* What the claims speak of, stated on the step record *)

\* the step just taken fetched a word and decoded a known opcode
Decoded == last.state # "None" /\ last.fetched /\ last.op \in OpCodes

\* the content of the cell at address a of the memory before the step
Cell(a) == last.mem0[a + 1]

\* an operand as the specification resolves it: the cell itself in immediate
\* mode, the cell that cell addresses in position mode
Resolved(a, digit) == IF digit = 1 THEN Cell(a) ELSE Cell(Cell(a))

\* the k-th least-significant decimal digit of n
RECURSIVE Pow10(_)
Pow10(k) == IF k = 0 THEN 1 ELSE 10 * Pow10(k - 1)
Digit(n, k) == (n \div Pow10(k - 1)) % 10

\* the first call on the Computer has returned
FirstCallReturned == calls = 1 /\ result.returned

---------------------------------------------------------------------------
\* C1: whenever a run started by execute() reaches Halt, execute() returns Ok(v)
\* with v the content of address 0 of the memory as it stands when Halt is
\* fetched; execute() returns Ok in no other way; and it returns 2, 3500 and 6
\* for the three example programs.
C1_ExecuteReturnsAddressZero ==
    /\ (api = "execute" /\ last.state = "Halted") =>
          /\ result.returned /\ result.ok
          /\ result.val = Cell(0)
    /\ (api = "execute" /\ result.returned /\ result.ok) => last.state = "Halted"
    /\ (api = "execute" /\ FirstCallReturned) =>
          /\ image = AddProgram => result.ok /\ result.val = 2
          /\ image = ClassicProgram => result.ok /\ result.val = 3500
          /\ image = TestSimpleProgram => result.ok /\ result.val = 6

\* C1 witness: execute() has returned 3500 for the classic program, whose
\* address 0 held 1 at the start
C1_Witness ==
    /\ api = "execute" /\ FirstCallReturned
    /\ image = ClassicProgram
    /\ result.ok /\ result.val = 3500 /\ image[1] # 3500

---------------------------------------------------------------------------
\* C2 (as claimed): a successful Add or Multiply step resolves a and b through
\* their modes, stores the sum a + b (the product a * b) in the cell addressed by
\* cell ip+3, changes no other cell, sets ip to ip+4 and reports Running; and
\* [2,3,0,3,99] ends with cell 3 equal to 6 and halts.
C2_AddMultiplyStoreTheSumOrProduct ==
    /\ (Decoded /\ last.op \in {1, 2} /\ last.state = "Running") =>
          LET a == Resolved(last.ip0 + 1, last.modes[1])
              b == Resolved(last.ip0 + 2, last.modes[2])
              exact == IF last.op = 1 THEN a + b
                       ELSE IF MulOverflows(a, b) THEN TwoW ELSE a * b
          IN /\ memory = [last.mem0 EXCEPT ![Cell(last.ip0 + 3) + 1] = exact]
             /\ ip = last.ip0 + 4
    /\ (image = MultiplyProgram /\ api = "execute" /\ FirstCallReturned) =>
          result.ok /\ memory[4] = 6 /\ last.state = "Halted"

---------------------------------------------------------------------------
\* C3 (as claimed): for every word W fetched, negative ones included, the opcode
\* value is W mod 100 and the k-th mode digit examined is the k-th
\* least-significant digit of W / 100.
C3_DecodingForEveryWord ==
    (last.state # "None" /\ last.fetched) =>
        /\ last.op = last.word % 100
        /\ \A k \in 1..Len(last.modes) : last.modes[k] = Digit(last.word \div 100, k)

\* C3 (amended): for every word W >= 0 the opcode value is W mod 100 and the
\* k-th mode digit examined is the k-th least-significant digit of W / 100
\* (0 past the last explicit digit); for a negative W the opcode value is the
\* remainder truncated toward zero, -(|W| mod 100), which is no opcode, so the
\* step fails with InvalidOpCode carrying it and examines no mode digit.
C3_DecodingAmended ==
    (last.state # "None" /\ last.fetched) =>
        /\ last.word >= 0 =>
              /\ last.op = last.word % 100
              /\ \A k \in 1..Len(last.modes) : last.modes[k] = Digit(last.word \div 100, k)
        /\ last.word < 0 =>
              /\ last.op = 0 - ((0 - last.word) % 100)
              /\ last.state = "Err" /\ last.err = InvalidOpCode(last.op)
              /\ last.modes = <<>>

\* C3 witness: an Add whose word 1001 gave the digits 0, 1 and then the
\* implicit 0 to its three operands
C3_Witness ==
    /\ last.state = "Running" /\ last.fetched
    /\ last.word = 1001 /\ last.op = 1
    /\ last.modes = <<0, 1, 0>>

---------------------------------------------------------------------------
---------------------------------------------------------------------------
\* C5: on a vector of n cells, read(a) and write(a, v) with a >= n return
\* Err(SegFault(a)) and leave every cell and the length as they were; with a < n,
\* read(a) returns the cell's value and write(a, v) replaces exactly that cell.
C5_MemoryIsBoundsChecked ==
    LET n == Len(mcall.before)
        a == mcall.address
    IN /\ (mcall.op = "read" /\ a >= n) => mcall.r = Err(SegFault(a))
       /\ (mcall.op = "read" /\ a < n) => mcall.r = Ok(mcall.before[a + 1])
       /\ mcall.op = "read" => memory = mcall.before
       /\ (mcall.op = "write" /\ a >= n) =>
             /\ mcall.r = Err(SegFault(a))
             /\ memory = mcall.before
       /\ (mcall.op = "write" /\ a < n) =>
             /\ mcall.r.ok
             /\ Len(memory) = n
             /\ memory[a + 1] = mcall.value
             /\ \A i \in 1..n : i # a + 1 => memory[i] = mcall.before[i]

\* C5 witness: a write at address n of a vector of n > 0 cells has been refused
C5_Witness ==
    /\ mcall.op = "write"
    /\ Len(mcall.before) > 0 /\ mcall.address = Len(mcall.before)
    /\ mcall.r = Err(SegFault(mcall.address))
    /\ memory = mcall.before

---------------------------------------------------------------------------
\* C6: in every reachable state the memory has exactly the length of the initial
\* image, and a step that touches an address outside the memory ends there, with
\* SegFault carrying that address, the memory as it was.
C6_MemoryKeepsItsLength ==
    /\ Len(memory) = Len(image)
    /\ last.state # "None" =>
          \A i \in 1..Len(last.acc) :
             last.acc[i] >= Len(last.mem0) =>
                /\ i = Len(last.acc)
                /\ last.state = "Err"
                /\ last.err = SegFault(last.acc[i])
                /\ memory = last.mem0

\* C6 witness: after an earlier step went through, a step has dereferenced a
\* negative value as an address and ended with SegFault
C6_Witness ==
    /\ steps >= 2
    /\ last.state = "Err" /\ last.err = SegFault(UsizeMax)
    /\ Len(last.acc) >= 2
    /\ Len(memory) = Len(image)

---------------------------------------------------------------------------
\* C7: run() on [3,0,4,0,99] with a read channel that supplies the single value
\* v returns Ok and has passed exactly one value, v, to the write channel.
C7_EchoRoundTrip ==
    (image = EchoProgram /\ api = "run" /\ calls = 1) =>
        /\ Len(output) <= 1
        /\ (result.returned /\ Len(input.taken) = 1) =>
              /\ result.ok
              /\ output = input.taken
        /\ (result.returned /\ result.ok) => Len(input.taken) = 1 /\ output = input.taken

\* C7 witness: the round trip of the value -1
C7_Witness ==
    /\ image = EchoProgram /\ api = "run" /\ FirstCallReturned
    /\ result.ok
    /\ input.taken = <<-1>> /\ output = <<-1>>

---------------------------------------------------------------------------
\* C8 (as claimed): when W mod 100 is not one of 1..8, 99 the step fails with
\* InvalidOpCode carrying W mod 100, having read no operand, called no channel
\* and changed neither memory nor ip.
C8_UnknownOpcode ==
    (last.state # "None" /\ last.fetched /\ (last.word % 100) \notin OpCodes) =>
        /\ last.state = "Err" /\ last.err = InvalidOpCode(last.word % 100)
        /\ last.acc = <<last.ip0>> /\ last.modes = <<>>
        /\ last.rd = 0 /\ last.wr = <<>>
        /\ memory = last.mem0 /\ ip = last.ip0

\* the remainder of W by 100 truncated toward zero: W mod 100 for W >= 0,
\* -(|W| mod 100) for W < 0
TruncatedRemainder(w) == IF w >= 0 THEN w % 100 ELSE 0 - ((0 - w) % 100)

\* C8 (amended): the opcode value of W is its remainder by 100 truncated toward
\* zero (W mod 100 for W >= 0, -(|W| mod 100) for W < 0, so never an opcode for a
\* negative W); when it is not one of 1..8, 99 the step fails with InvalidOpCode
\* carrying it, having read no operand, called no channel and changed neither
\* memory nor ip.
C8_UnknownOpcodeAmended ==
    (last.state # "None" /\ last.fetched /\ TruncatedRemainder(last.word) \notin OpCodes) =>
        /\ last.state = "Err" /\ last.err = InvalidOpCode(TruncatedRemainder(last.word))
        /\ last.acc = <<last.ip0>> /\ last.modes = <<>>
        /\ last.rd = 0 /\ last.wr = <<>>
        /\ memory = last.mem0 /\ ip = last.ip0

\* C8 witness: the word 55 has been refused as InvalidOpCode(55)
C8_Witness ==
    /\ last.state = "Err" /\ last.fetched
    /\ last.word = 55
    /\ last.err = InvalidOpCode(55)
    /\ ip = last.ip0

---------------------------------------------------------------------------
(* Operands as the claims C9 and C10 count them *)

\* the number of operands of an opcode (the table of the specification)
Arity(op) ==
    CASE op \in {1, 2, 7, 8} -> 3
      [] op \in {5, 6} -> 2
      [] op \in {3, 4} -> 1
      [] op = 99 -> 0

\* the mode digit of the k-th operand of the word just fetched
ModeDigit(k) == Digit(last.word \div 100, k)

\* the operands of the word just fetched whose mode digit is neither 0 nor 1
BadOperands == {k \in 1..Arity(last.op) : ModeDigit(k) \notin {0, 1}}

FirstBadOperand == CHOOSE k \in BadOperands : \A j \in BadOperands : k <= j

\* the k-th operand (mode digit 0 or 1) can be read without leaving the memory
OperandInBounds(k) ==
    /\ last.ip0 + k < Len(last.mem0)
    /\ ModeDigit(k) = 0 => Cell(last.ip0 + k) >= 0 /\ Cell(last.ip0 + k) < Len(last.mem0)

\* the result of the Add or Multiply just fetched does not fit a Value
ResultOverflows ==
    LET a == Resolved(last.ip0 + 1, ModeDigit(1))
        b == Resolved(last.ip0 + 2, ModeDigit(2))
    IN IF last.op = 1 THEN AddOverflows(a, b) ELSE MulOverflows(a, b)

---------------------------------------------------------------------------
\* C9 (as claimed): when the mode digit of one of the n operands of the opcode is
\* neither 0 nor 1, the step fails with InvalidMode carrying that digit.
C9_BadModeDigitFailsWithInvalidMode ==
    (Decoded /\ BadOperands # {}) =>
        /\ last.state = "Err"
        /\ last.err.kind = "InvalidMode"
        /\ \E k \in BadOperands : last.err.val = ModeDigit(k)

\* C9 (amended): such a step never succeeds and changes neither memory nor ip.
\* With k the first operand whose digit is neither 0 nor 1: if an operand before
\* k cannot be read inside the memory, the step fails with SegFault before digit
\* k is examined; otherwise it fails with InvalidMode carrying digit k, the one
\* exception being an Add or Multiply with k = 3 whose result overflows, which a
\* build with overflow checks aborts before the destination digit is examined.
C9_BadModeDigitAmended ==
    (Decoded /\ BadOperands # {}) =>
        LET k == FirstBadOperand
            earlier == \A j \in 1..(k - 1) : OperandInBounds(j)
        IN /\ last.state \in {"Err", "Panic"}
           /\ memory = last.mem0 /\ ip = last.ip0
           /\ last.rd = 0 /\ last.wr = <<>>
           /\ ~earlier => last.state = "Err" /\ last.err.kind = "SegFault"
           /\ earlier =>
                 \/ last.state = "Err" /\ last.err = InvalidMode(ModeDigit(k))
                 \/ /\ last.state = "Panic"
                    /\ last.op \in {1, 2} /\ k = 3
                    /\ ResultOverflows /\ overflow_checks = "on"
           /\ (last.state = "Err" /\ last.err.kind = "InvalidMode") =>
                 last.err.val = ModeDigit(k) /\ Len(last.modes) = k

\* C9 witness: the word 2001 (digits 0 and 2) has failed with InvalidMode(2)
\* after its first operand was read
C9_Witness ==
    /\ Decoded /\ last.word = 2001
    /\ BadOperands = {2}
    /\ last.state = "Err" /\ last.err = InvalidMode(2)
    /\ Len(last.acc) = 3

---------------------------------------------------------------------------
\* the read channel handed the step just taken a value
ChannelSupplied == last.input.taken # last.input0.taken

\* C10 (as claimed): a step of Add, Multiply, Input, LessThan or Equals whose
\* destination has mode digit 1 never writes to memory; once its source operands
\* have resolved (for Input: once the read channel has supplied the value) it
\* fails with InvalidWriteMode(Immediate), memory and ip unchanged.
C10_ImmediateDestinationFails ==
    (Decoded /\ last.op \in {1, 2, 3, 7, 8} /\ ModeDigit(Arity(last.op)) = 1) =>
        LET sources ==
              IF last.op = 3 THEN ChannelSupplied
              ELSE /\ ModeDigit(1) \in {0, 1} /\ OperandInBounds(1)
                   /\ ModeDigit(2) \in {0, 1} /\ OperandInBounds(2)
        IN /\ memory = last.mem0
           /\ sources =>
                 /\ last.state = "Err"
                 /\ last.err = InvalidWriteMode(Immediate)
                 /\ ip = last.ip0

---------------------------------------------------------------------------
\* the Computer stands on a word whose opcode is Halt
AtHalt == Fetches(memory, ip, {99})

\* C11: a step that fetches opcode 99 reports Halted, leaves ip and every memory
\* cell as they were and calls no channel, and a step reports Halted in no other
\* way; every successful step with another opcode reports Running.  Halted is
\* absorbing: a Computer standing on a Halt word stays on it with its memory
\* unchanged whatever is called on it, every step taken on it reports Halted
\* again, and the call that took it returns Ok, execute() with the content of
\* address 0, which is the same every time.
C11_HaltedIsAbsorbing ==
    /\ [](/\ (last.state # "None" /\ last.fetched /\ last.op = 99) =>
                /\ last.state = "Halted"
                /\ memory = last.mem0 /\ ip = last.ip0
                /\ last.memory = last.mem0 /\ last.ip = last.ip0
                /\ last.rd = 0 /\ last.wr = <<>> /\ last.pushed = <<>>
                /\ last.input = last.input0
          /\ last.state = "Halted" => (last.fetched /\ last.op = 99 /\ AtHalt)
          /\ (last.state \in {"Running", "Halted"} /\ last.op # 99) =>
                last.state = "Running")
    /\ [][/\ AtHalt => (AtHalt' /\ memory' = memory /\ ip' = ip)
          /\ (AtHalt /\ pc = "run_all") =>
                /\ last'.state = "Halted"
                /\ output' = output /\ input' = input
                /\ pc' = "idle"
                /\ result' = IF api = "execute" THEN Returned(Ok(memory[1]))
                                                ELSE Returned(Ok(0))]_vars

\* C11 witness: the second call on a Computer that had halted has halted again,
\* on the same word, and execute() has returned the content of address 0 again
C11_Witness ==
    /\ calls = 2 /\ steps >= 3
    /\ api = "execute" /\ last.state = "Halted"
    /\ Len(last.acc) = 1
    /\ ip > 0 /\ memory # image
    /\ result.returned /\ result.ok /\ result.val = memory[1]

---------------------------------------------------------------------------
\* C12: run()/execute() takes steps one after another for as long as they report
\* Running and returns at the first step that reports Halted (with Ok) or fails
\* (with exactly that step's error, the error of a channel included); it returns
\* in no other way; and once the call is over, nothing is fetched, no cell is
\* written and no channel is called until the next call.
C12_RunStopsAtTheFirstFailure ==
    /\ [](/\ last.state = "Running" => (pc = "run_all" /\ ~result.returned)
          /\ last.state = "Halted" => (pc = "idle" /\ result.returned /\ result.ok)
          /\ last.state = "Err" =>
                /\ pc = "idle"
                /\ result.returned /\ ~result.ok /\ result.err = last.err
          /\ result.returned => (pc = "idle" /\ last.state \in {"Halted", "Err"})
          /\ pc = "run_all" => last.state \in {"None", "Running"})
    /\ [][pc # "run_all" =>
            /\ memory' = memory /\ ip' = ip
            /\ ~last'.fetched /\ last'.acc = <<>>
            /\ last'.rd = 0 /\ last'.wr = <<>>
            /\ input'.taken = <<>> /\ output' = <<>>]_vars

\* C12 witness: run() on the program that echoes twice has taken two steps, and
\* its third, the second Input, has failed with the error of the caller's read
\* channel, which run() has returned; the value echoed before is still there
C12_Witness ==
    /\ image = EchoTwiceProgram /\ api = "run" /\ calls = 1 /\ steps = 3
    /\ last.state = "Err" /\ last.rd = 1 /\ last.ip0 = 4
    /\ result = Returned(Err(ReadingNotSupported))
    /\ Len(output) = 1 /\ output[1] = memory[1]
    /\ pc = "idle"

---------------------------------------------------------------------------
\* C13 (as claimed): under execute() a step that fetches an Input fails with
\* ReadingNotSupported and a step that fetches an Output fails with
\* WritingNotSupported, and the execute() call that took it does not return Ok.
C13_ExecuteFailsOnInputAndOutput ==
    (api = "execute" /\ Decoded /\ last.op \in {3, 4}) =>
        /\ last.state = "Err"
        /\ last.op = 3 => last.err = ReadingNotSupported
        /\ last.op = 4 => last.err = WritingNotSupported
        /\ result.returned /\ ~result.ok

\* C13 (amended): under execute() a step that fetches an Input or an Output never
\* succeeds, changes neither memory nor ip, and execute() returns its error.  An
\* Input whose mode digit is 0 or 1 calls the read stub and fails with
\* ReadingNotSupported; with any other digit it fails with InvalidMode before
\* the stub is called.  An Output whose operand resolves calls the write stub
\* with it and fails with WritingNotSupported; when the operand does not resolve
\* the step fails with the operand's InvalidMode or SegFault and the stub is not
\* called.
C13_ExecuteFailsAmended ==
    (api = "execute" /\ Decoded /\ last.op \in {3, 4}) =>
        /\ last.state = "Err"
        /\ memory = last.mem0 /\ ip = last.ip0 /\ output = <<>>
        /\ result = Returned(Err(last.err))
        /\ (last.op = 3 /\ ModeDigit(1) \in {0, 1}) =>
              (last.err = ReadingNotSupported /\ last.rd = 1)
        /\ (last.op = 3 /\ ModeDigit(1) \notin {0, 1}) =>
              (last.err = InvalidMode(ModeDigit(1)) /\ last.rd = 0)
        /\ (last.op = 4 /\ ModeDigit(1) \in {0, 1} /\ OperandInBounds(1)) =>
              /\ last.err = WritingNotSupported
              /\ last.wr = <<Resolved(last.ip0 + 1, ModeDigit(1))>>
        /\ (last.op = 4 /\ ModeDigit(1) \notin {0, 1}) =>
              (last.err = InvalidMode(ModeDigit(1)) /\ last.wr = <<>>)
        /\ (last.op = 4 /\ ModeDigit(1) \in {0, 1} /\ ~OperandInBounds(1)) =>
              (last.err.kind = "SegFault" /\ last.wr = <<>>)

\* C13 witness: execute() has added, then reached the Output, handed the sum to
\* the write stub and returned WritingNotSupported
C13_Witness ==
    /\ image = AddThenOutputProgram /\ api = "execute" /\ calls = 1 /\ steps = 2
    /\ Decoded /\ last.op = 4
    /\ last.wr = <<2>> /\ last.pushed = <<>>
    /\ result = Returned(Err(WritingNotSupported))

---------------------------------------------------------------------------
---------------------------------------------------------------------------
\* C15: a successful LessThan step stores 1 in the destination cell if the
\* resolved a < b and 0 otherwise, a successful Equals step 1 if a = b and 0
\* otherwise; the value stored is 0 or 1, no other cell changes, and ip advances
\* by 4.
C15_CompareStoresZeroOrOne ==
    (Decoded /\ last.op \in {7, 8} /\ last.state = "Running") =>
        LET a == Resolved(last.ip0 + 1, ModeDigit(1))
            b == Resolved(last.ip0 + 2, ModeDigit(2))
            dest == Cell(last.ip0 + 3)
            holds == IF last.op = 7 THEN a < b ELSE a = b
        IN /\ dest >= 0 /\ dest < Len(last.mem0)
           /\ memory[dest + 1] = (IF holds THEN 1 ELSE 0)
           /\ memory[dest + 1] \in {0, 1}
           /\ Len(memory) = Len(last.mem0)
           /\ \A i \in 1..Len(memory) : i # dest + 1 => memory[i] = last.mem0[i]
           /\ ip = last.ip0 + 4

\* C15 witness: the LessThan of -1 and 0 has put 1 into cell 4, which held 99
C15_Witness ==
    /\ image = <<1107, -1, 0, 4, 99>>
    /\ Decoded /\ last.op = 7 /\ last.state = "Running"
    /\ Resolved(last.ip0 + 1, ModeDigit(1)) < Resolved(last.ip0 + 2, ModeDigit(2))
    /\ memory = <<1107, -1, 0, 4, 1>>
    /\ ip = 4

---------------------------------------------------------------------------
\* the step just taken completed an instruction of this opcode
Completed(op) == Decoded /\ last.op = op /\ last.state = "Running"

\* the operand of the Output just fetched, resolved through its mode
OutputOperand == Resolved(last.ip0 + 1, ModeDigit(1))

\* C16: a completed Input step has called the read channel once and stored the
\* value it returned in its destination cell; a completed Output step has called
\* the write channel once, with its resolved operand; a step of another opcode
\* calls neither channel, and no step calls both.  So over a run the values the
\* read channel handed out grow by exactly the value each completed Input
\* stores, and the values emitted by exactly the operand of each completed
\* Output, in the order of the steps.
C16_ChannelProtocol ==
    /\ [](/\ Completed(3) =>
                /\ last.rd = 1 /\ last.wr = <<>>
                /\ Len(input.taken) = Len(last.input0.taken) + 1
                /\ memory = [last.mem0 EXCEPT ![Cell(last.ip0 + 1) + 1] =
                                                 input.taken[Len(input.taken)]]
          /\ Completed(4) =>
                /\ last.rd = 0 /\ last.wr = <<OutputOperand>>
                /\ last.pushed = last.wr
          /\ (last.state # "None" /\ ~(last.fetched /\ last.op \in {3, 4})) =>
                (last.rd = 0 /\ last.wr = <<>>)
          /\ last.rd = 0 => last.input = last.input0
          /\ last.wr = <<>> => last.pushed = <<>>
          /\ last.rd = 0 \/ last.wr = <<>>)
    /\ [][pc = "run_all" =>
            /\ output' = IF Completed(4)' THEN Append(output, OutputOperand') ELSE output
            /\ Completed(3)' =>
                  /\ Len(input'.taken) = Len(input.taken) + 1
                  /\ \A k \in 1..Len(input.taken) : input'.taken[k] = input.taken[k]
                  /\ memory'[Cell(last.ip0 + 1)' + 1] = input'.taken[Len(input'.taken)]
            /\ ~(last'.fetched /\ last'.op = 3) => input' = input]_vars

\* C16 witness: run() on the program that echoes twice has completed its second
\* Output: the read channel handed out 4, then 5, each was stored in cell 0 by
\* its Input, and 4, then 5 were emitted
C16_Witness ==
    /\ image = EchoTwiceProgram /\ api = "run" /\ calls = 1 /\ steps = 4
    /\ Completed(4) /\ last.ip0 = 6
    /\ input.taken = <<4, 5>>
    /\ output = <<4, 5>>
    /\ memory[1] = 5

---------------------------------------------------------------------------
\* every address the step just taken accessed (instruction word, operand cells,
\* cells addressed in position mode) lies inside the memory
AccessedInBounds == \A i \in 1..Len(last.acc) : last.acc[i] < Len(last.mem0)

\* C17: a step fails with SegFault only at an access outside the memory: the
\* last address it accessed is not below the length, and is the one reported.
\* A step all of whose accesses are inside the memory does not fail with
\* SegFault, the steps that succeed access nothing outside it, and a call
\* returns SegFault only as the error of its last step.
C17_SegFaultOnlyOutOfBounds ==
    /\ (last.state = "Err" /\ last.err.kind = "SegFault") =>
          /\ Len(last.acc) > 0
          /\ last.acc[Len(last.acc)] >= Len(last.mem0)
          /\ last.err = SegFault(last.acc[Len(last.acc)])
          /\ \A i \in 1..(Len(last.acc) - 1) : last.acc[i] < Len(last.mem0)
    /\ (last.state # "None" /\ AccessedInBounds) =>
          ~(last.state = "Err" /\ last.err.kind = "SegFault")
    /\ last.state \in {"Running", "Halted"} => AccessedInBounds
    /\ (result.returned /\ ~result.ok /\ result.err.kind = "SegFault") =>
          (last.state = "Err" /\ last.err = result.err /\ ~AccessedInBounds)

\* C17 witness: after a first step inside the memory, the second step of the
\* run dereferenced a negative cell in position mode, an address far outside,
\* and the call returned SegFault with that address
C17_Witness ==
    /\ calls = 1 /\ steps = 2
    /\ last.state = "Err" /\ Len(last.acc) = 3
    /\ last.acc[3] = UsizeMax /\ last.mem0[last.acc[2] + 1] = -1
    /\ result = Returned(Err(SegFault(UsizeMax)))

---------------------------------------------------------------------------
\* the six kinds of vm/errors.rs
ErrorKinds ==
    {"InvalidOpCode", "SegFault", "ReadingNotSupported", "WritingNotSupported",
     "InvalidMode", "InvalidWriteMode"}

\* C18 (as claimed): every step ends in Running, in Halted, or in one of the six
\* errors returned as a value; no step aborts, whatever the operands of Add and
\* Multiply are.
C18_EveryStepReturns ==
    /\ last.state \in {"None", "Running", "Halted", "Err"}
    /\ last.state = "Err" => last.err.kind \in ErrorKinds
    /\ pc # "aborted"

---------------------------------------------------------------------------
\* the execute() of vm.rs has not failed: it is in its loop, or has returned Ok
MinimalGoesWell == twin.pc = "run_all" \/ (twin.pc = "idle" /\ twin.result.ok)

\* C19: on one image, as long as the execute() of vm.rs has not failed, the
\* execute() of vm/mod.rs has gone through the same ip and memory after the same
\* number of steps, its step has made the same write (same cell, same value, or
\* none) as the iteration of vm.rs, and when vm.rs has returned Ok(v), vm/mod.rs
\* has returned Ok(v) after as many steps.
C19_MinimalIsSubsumed ==
    (MinimalGoesWell /\ twin.n = steps) =>
        /\ memory = twin.memory /\ ip = twin.ip
        /\ pc = twin.pc
        /\ result = twin.result
        /\ mcall.op = "write" =>
              /\ Decoded /\ last.op \in {1, 2} /\ last.state = "Running"
              /\ last.mem0 = mcall.before
              /\ last.acc[Len(last.acc)] = mcall.address
              /\ memory = [last.mem0 EXCEPT ![mcall.address + 1] = mcall.value]
        /\ mcall.op # "write" => (steps > 0 => last.memory = last.mem0)

\* C19 witness: both interpreters have run the test program of vm.rs over an
\* Add, a Multiply and the Halt, and both have returned Ok(6)
C19_Witness ==
    /\ image = TestSimpleProgram
    /\ steps = 3 /\ twin.n = 3
    /\ twin.pc = "idle" /\ twin.result = Returned(Ok(6))
    /\ result = Returned(Ok(6))
    /\ memory = twin.memory /\ memory[1] = 6

---------------------------------------------------------------------------
\* the six digits of a six-digit number, from the left
DigitsOf(num) == [i \in 1..6 |-> Digit(num, 7 - i)]

\* the maximal runs of equal adjacent digits, as pairs <<first, last>> of positions
Runs(d) ==
    {r \in (1..6) \X (1..6) :
        /\ r[1] <= r[2]
        /\ \A i \in r[1]..r[2] : d[i] = d[r[1]]
        /\ r[1] > 1 => d[r[1] - 1] # d[r[1]]
        /\ r[2] < 6 => d[r[2] + 1] # d[r[2]]}

\* what the specification of day 4 asks of validate(num)
ValidateAsSpecified(num) ==
    IF num < 100000 \/ num > 999999 THEN None
    ELSE LET d == DigitsOf(num)
             lengths == {r[2] - r[1] + 1 : r \in Runs(d)} \ {1}
         IN IF \E i \in 2..6 : d[i] < d[i - 1] THEN None
            ELSE IF lengths = {} THEN Some(1)
            ELSE Some(CHOOSE m \in lengths : \A n \in lengths : m <= n)

\* C20: validate(num) is None for every num outside [100000, 999999]; for a
\* six-digit num it is None iff some digit is smaller than the digit to its
\* left, and otherwise Some(m) with m the length of the shortest maximal run of
\* equal adjacent digits of length 2 or more, or Some(1) when no digit repeats;
\* 122456 gives 2, 123456 gives 1, 111111 gives 6, 111122 gives 2 and 223450
\* None.
C20_ValidateAsSpecified ==
    puzzle.fn = "validate" =>
        /\ puzzle.r = ValidateAsSpecified(puzzle.num)
        /\ puzzle.num = 122456 => puzzle.r = Some(2)
        /\ puzzle.num = 123456 => puzzle.r = Some(1)
        /\ puzzle.num = 111111 => puzzle.r = Some(6)
        /\ puzzle.num = 111122 => puzzle.r = Some(2)
        /\ puzzle.num = 223450 => puzzle.r = None

\* C20 witness: validate(112224) has returned Some(2), the shorter of its runs
\* of two and of three
C20_Witness ==
    /\ puzzle.fn = "validate" /\ puzzle.num = 112224
    /\ puzzle.r = Some(2)
    /\ {r[2] - r[1] + 1 : r \in Runs(DigitsOf(puzzle.num))} = {1, 2, 3}

---------------------------------------------------------------------------
\* the number of unit steps of a segment, and of the segments before the k-th
StepsOf(segment) == IF segment.length > 0 THEN segment.length ELSE 0

RECURSIVE StepsBefore(_, _)
StepsBefore(segments, k) ==
    IF k <= 1 THEN 0 ELSE StepsBefore(segments, k - 1) + StepsOf(segments[k - 1])

\* how many of the first n unit steps of a wire fall into its k-th segment
StepsInto(segments, k, n) ==
    LET over == n - StepsBefore(segments, k)
    IN IF over < 0 THEN 0 ELSE IF over > StepsOf(segments[k]) THEN StepsOf(segments[k]) ELSE over

RECURSIVE Displacement(_, _, _)
Displacement(segments, k, n) ==
    IF k = 0 THEN <<0, 0>>
    ELSE LET rest == Displacement(segments, k - 1, n)
             here == as_offset(segments[k].direction, StepsInto(segments, k, n))
         IN <<rest[1] + here[1], rest[2] + here[2]>>

\* the path of a wire as the puzzle defines it: the point reached after each of
\* its unit steps, the start itself not among them
PathOf(wire) ==
    LET all == StepsBefore(wire.segments, Len(wire.segments) + 1)
    IN [n \in 1..all |->
          LET d == Displacement(wire.segments, Len(wire.segments), n)
          IN <<wire.start[1] + d[1], wire.start[2] + d[2]>>]

\* the smallest 0-based step index at which the path reaches p
FirstReach(path, p) ==
    (CHOOSE i \in 1..Len(path) : path[i] = p /\ \A k \in 1..(i - 1) : path[k] # p) - 1

\* the 1-based indices of pb whose point occurs on pa, in increasing order
RECURSIVE Hits(_, _, _)
Hits(pa, pb, j) ==
    IF j > Len(pb) THEN <<>>
    ELSE (IF \E i \in 1..Len(pa) : pa[i] = pb[j] THEN <<j>> ELSE <<>>) \o Hits(pa, pb, j + 1)

\* C21: a.intersections(b) yields, in the order of b's path, one pair
\* (p, i + j + 2) for every 0-based step index j of b whose point p also occurs
\* on a's path, with i the smallest 0-based step index at which a reaches p, and
\* nothing else; the paths are the points reached after each unit step, so the
\* start is on a path only if the wire walks back onto it; the wires of the test
\* yield the one pair ((4, 2), 8).
C21_IntersectionsInOrderOfB ==
    puzzle.fn = "intersections" =>
        LET pa == PathOf(puzzle.a)
            pb == PathOf(puzzle.b)
            hits == Hits(pa, pb, 1)
        IN /\ iter_points(puzzle.a) = pa
           /\ iter_points(puzzle.b) = pb
           /\ Len(puzzle.r) = Len(hits)
           /\ \A k \in 1..Len(hits) :
                 puzzle.r[k] = <<pb[hits[k]], FirstReach(pa, pb[hits[k]]) + (hits[k] - 1) + 2>>
           /\ \A k \in 1..Len(puzzle.r) :
                 (\E i \in 1..Len(pa) : pa[i] = puzzle.r[k][1])
                   /\ (\E j \in 1..Len(pb) : pb[j] = puzzle.r[k][1])
           /\ (puzzle.a = TestWireA /\ puzzle.b = TestWireB) => puzzle.r = <<<<<<4, 2>>, 8>>>>
           /\ puzzle.a = TestItersWire =>
                 pa = <<<<2, 2>>, <<3, 2>>, <<4, 2>>, <<4, 3>>, <<4, 4>>, <<4, 3>>, <<3, 3>>,
                        <<2, 3>>>>

\* C21 witness: wire a goes right twice and back once, meeting (1, 0) at its
\* steps 0 and 2; wire b goes right once and back onto the start; the one pair
\* yielded is ((1, 0), 0 + 0 + 2), and the start, on b's path only, is not
C21_Witness ==
    /\ puzzle.fn = "intersections"
    /\ puzzle.a = Wire(<<0, 0>>, <<Segment("Right", 2), Segment("Left", 1)>>)
    /\ puzzle.b = Wire(<<0, 0>>, <<Segment("Right", 1), Segment("Left", 1)>>)
    /\ puzzle.r = <<<<<<1, 0>>, 2>>>>

---------------------------------------------------------------------------
\* the object a body orbits in the map asked about ("" when it orbits none)
OrbitedBy(body) ==
    IF \E k \in 1..Len(puzzle.orbits) : puzzle.orbits[k].satellite = body
      THEN puzzle.orbits[CHOOSE k \in 1..Len(puzzle.orbits) :
                            puzzle.orbits[k].satellite = body].object
      ELSE ""

\* the body n orbits up from a body ("" past the top)
RECURSIVE Up(_, _)
Up(body, n) == IF n = 0 \/ body = "" THEN body ELSE Up(OrbitedBy(body), n - 1)

\* the number of orbits between a body and COM, or -1 when it is not in the tree
Depth(body) ==
    IF \E n \in 0..Len(puzzle.orbits) : Up(body, n) = "COM"
      THEN CHOOSE n \in 0..Len(puzzle.orbits) : Up(body, n) = "COM"
      ELSE 0 - 1

\* the number of edges of the tree path between two bodies of the tree: up from
\* each to the deepest body above (or equal to) both
PathEdges(x, y) ==
    LET meets == {<<n, m>> \in (0..Depth(x)) \X (0..Depth(y)) : Up(x, n) = Up(y, m)}
    IN CHOOSE e \in {p[1] + p[2] : p \in meets} : \A p \in meets : e <= p[1] + p[2]

\* C22: for two non-root bodies a and b of the tree, distance(a, b) is the number
\* of edges of the tree path between the body a orbits and the body b orbits,
\* and is the same as distance(b, a); it is 4 for YOU and SAN in the map of the
\* test; and it fails when either name is not in the tree.
C22_DistanceBetweenTheOrbitedBodies ==
    puzzle.fn = "distance" =>
        /\ (Depth(puzzle.a) > 0 /\ Depth(puzzle.b) > 0) =>
              /\ puzzle.r = Distance(PathEdges(OrbitedBy(puzzle.a), OrbitedBy(puzzle.b)))
              /\ puzzle.back = puzzle.r
        /\ (Depth(puzzle.a) < 0 \/ Depth(puzzle.b) < 0) =>
              (~puzzle.r.ok /\ ~puzzle.back.ok)
        /\ (puzzle.orbits = TestOrbits /\ puzzle.a = "YOU" /\ puzzle.b = "SAN") =>
              puzzle.r = Distance(4)

\* C22 witness: in the map of the test, distance("YOU", "SAN") is 4, the edges
\* K-J, J-E, E-D, D-I between the bodies YOU and SAN orbit, and so is
\* distance("SAN", "YOU")
C22_Witness ==
    /\ puzzle.fn = "distance" /\ puzzle.orbits = TestOrbits
    /\ puzzle.a = "YOU" /\ puzzle.b = "SAN"
    /\ OrbitedBy("YOU") = "K" /\ OrbitedBy("SAN") = "I"
    /\ Up("K", 3) = "D" /\ Up("I", 1) = "D"
    /\ puzzle.r = Distance(4) /\ puzzle.back = Distance(4)

---------------------------------------------------------------------------
\* C23: a step that fails, with any of the six errors, leaves every memory cell
\* and ip as they were before it; so the memory and ip a failed run leaves are
\* those the last completed step left (those of the start when the first step
\* fails).
C23_FailedStepChangesNothing ==
    /\ [](last.state = "Err" =>
             /\ last.err.kind \in ErrorKinds
             /\ last.memory = last.mem0 /\ last.ip = last.ip0
             /\ memory = last.mem0 /\ ip = last.ip0)
    /\ [][(pc = "run_all" /\ last'.state = "Err") =>
             /\ memory' = memory /\ ip' = ip
             /\ last'.mem0 = memory /\ last'.ip0 = ip]_vars

\* C23 witness: the first step of the run wrote a cell and moved ip, the second
\* failed after reading an operand, and memory and ip are as the first left them
C23_Witness ==
    /\ calls = 1 /\ steps = 2
    /\ last.state = "Err" /\ Len(last.acc) >= 2
    /\ memory # image /\ memory = last.mem0
    /\ ip = 4 /\ ip = last.ip0
    /\ result = Returned(Err(last.err))

---------------------------------------------------------------------------
\* the step just taken is a jump that was taken
TakenJump ==
    /\ Decoded /\ last.op \in {5, 6} /\ last.state = "Running"
    /\ (Resolved(last.ip0 + 1, last.modes[1]) # 0) = (last.op = 5)

\* C24 (as claimed): a jump whose operands resolve succeeds whatever its target,
\* and when taken sets ip to the target reinterpreted as an unsigned address; ip
\* is never negative; and when that address is not below the length of the
\* memory, the next step fails at its fetch with SegFault carrying that address.
C24_JumpOutOfBoundsFaultsAtTheNextFetch ==
    /\ [](/\ ip >= 0
          /\ (Decoded /\ last.op \in {5, 6}
                /\ ModeDigit(1) \in {0, 1} /\ OperandInBounds(1)
                /\ ModeDigit(2) \in {0, 1} /\ OperandInBounds(2)) =>
                last.state = "Running"
          /\ TakenJump => ip = Resolved(last.ip0 + 2, last.modes[2]) % TwoW)
    /\ [][(pc = "run_all" /\ TakenJump /\ ip >= Len(memory)) =>
             /\ last'.state = "Err"
             /\ last'.err = SegFault(ip)
             /\ ~last'.fetched]_vars

---------------------------------------------------------------------------
\* C25: an Input step that fails at the write, with InvalidWriteMode because the
\* destination is in immediate mode or with SegFault because the destination
\* cell or the address in it lies outside the memory, has called the read
\* channel once and taken a value from it that is stored nowhere, memory and ip
\* being unchanged; an Input step that fails with InvalidMode has not called the
\* read channel.
C25_FailingInputConsumesTheValue ==
    /\ (Decoded /\ last.op = 3 /\ last.state = "Err"
          /\ last.err.kind \in {"InvalidWriteMode", "SegFault"}) =>
          /\ last.rd = 1
          /\ Len(last.input.taken) = Len(last.input0.taken) + 1
          /\ input = last.input
          /\ memory = last.mem0 /\ ip = last.ip0
          /\ last.err.kind = "InvalidWriteMode" <=> ModeDigit(1) = 1
          /\ last.err.kind = "SegFault" <=> (ModeDigit(1) = 0 /\ ~OperandInBounds(1))
    /\ (Decoded /\ last.op = 3 /\ ChannelSupplied /\ ModeDigit(1) = 1) =>
          (last.state = "Err" /\ last.err = InvalidWriteMode(Immediate))
    /\ (Decoded /\ last.op = 3 /\ last.state = "Err" /\ last.err.kind = "InvalidMode") =>
          /\ last.rd = 0
          /\ last.input = last.input0
          /\ last.err = InvalidMode(ModeDigit(1))

\* C25 witness: run() has fetched the Input word 103, the read channel has handed
\* out 5, and the step has failed with InvalidWriteMode; 5 is in no cell
C25_Witness ==
    /\ api = "run" /\ calls = 1 /\ steps = 1
    /\ Decoded /\ last.word = 103
    /\ input.taken = <<5>> /\ last.rd = 1
    /\ result = Returned(Err(InvalidWriteMode(Immediate)))
    /\ memory = image /\ \A i \in 1..Len(memory) : memory[i] # 5

---------------------------------------------------------------------------
\* the word just fetched without the digits above its opcode's operands
LowWord == last.word % Pow10(2 + Arity(last.op))

\* the word just fetched has a nonzero digit above its opcode's operands
HasHighDigits == Decoded /\ LowWord # last.word

\* the memory the last step started from, with LowWord in place of its word
LowImage == [last.mem0 EXCEPT ![last.ip0 + 1] = LowWord]

\* the last step used its own word as data (an operand cell or a destination)
TouchedItsWord == \E i \in 2..Len(last.acc) : last.acc[i] = last.ip0

\* step t did to LowImage what the last step did to the memory it started from
SameBehaviour(t) ==
    /\ t.state = last.state /\ t.err = last.err /\ t.ip = last.ip
    /\ t.op = last.op /\ t.modes = last.modes /\ t.acc = last.acc
    /\ t.input = last.input /\ t.rd = last.rd
    /\ t.wr = last.wr /\ t.pushed = last.pushed
    /\ t.overflowed = last.overflowed
    /\ t.memory = [last.memory EXCEPT ![last.ip0 + 1] = LowWord]

\* C26: the mode digits above an opcode's operands are never examined: a step
\* examines at most as many mode digits as its opcode has operands, an
\* InvalidMode carries one of those digits, and the step does exactly what the
\* same step does on the word without its higher digits (299 and 20099 halt
\* like 99, 2004 outputs like 4, 21105 jumps like 1105, none of them with
\* InvalidMode).
C26_HighDigitsAreNeverExamined ==
    /\ Decoded => Len(last.modes) <= Arity(last.op)
    /\ (Decoded /\ last.state = "Err" /\ last.err.kind = "InvalidMode") =>
          /\ Len(last.modes) >= 1
          /\ last.err = InvalidMode(ModeDigit(Len(last.modes)))
    /\ (Decoded /\ last.word \in {299, 20099, 2004, 21105}) =>
          ~(last.state = "Err" /\ last.err.kind = "InvalidMode")
    /\ (Decoded /\ last.word \in {299, 20099}) => last.state = "Halted"
    /\ HasHighDigits =>
          \E answer \in Answers(last.input0) \cup {reading_not_supported}, oc \in BOOLEAN :
             step(last.mem0, last.ip0, api, last.input0, answer, oc) = last
    /\ (HasHighDigits /\ ~TouchedItsWord) =>
          \A answer \in Answers(last.input0) \cup {reading_not_supported}, oc \in BOOLEAN :
             step(last.mem0, last.ip0, api, last.input0, answer, oc) = last =>
                SameBehaviour(step(LowImage, last.ip0, api, last.input0, answer, oc))

\* C26 witness: 2004 has written the cell its operand names to the channel and
\* moved ip by two, as 4 does
C26_Witness ==
    /\ api = "run" /\ Completed(4) /\ last.word = 2004
    /\ HasHighDigits /\ LowWord = 4 /\ ~TouchedItsWord
    /\ last.modes = <<0>> /\ output = <<99>> /\ ip = 2

---------------------------------------------------------------------------
\* a step that reported Running moved ip by one plus its opcode's operand count
AdvancedPastItsOperands == ip = last.ip0 + 1 + Arity(last.op)

\* the loop of run_all has ended with Halted or with an error
EndedInHaltedOrAFault ==
    pc = "idle" /\ result.returned /\ last.state \in {"Halted", "Err"}

\* C27 (as claimed): a step that reports Running and is not a taken jump moves
\* ip by exactly 1 plus its operand count (4 for Add, Multiply, LessThan and
\* Equals, 2 for Input and Output, 3 for a jump not taken); so a run in which no
\* jump is taken takes at most len(memory) steps and ends in Halted or a fault,
\* and execute() of the minimal interpreter, which adds 4 to ip per
\* instruction, terminates on every image.
C27_ProgressWithoutTakenJumps ==
    /\ []((Decoded /\ last.state = "Running" /\ ~TakenJump) => AdvancedPastItsOperands)
    /\ []((twin.pc = "run_all" /\ twin.n > 0) => twin.ip = 4 * twin.n)
    /\ [](~TakenJump => (steps <= Len(memory) /\ pc # "aborted"))
    /\ ((pc = "run_all" /\ ~TakenJump) ~> (EndedInHaltedOrAFault \/ TakenJump))
    /\ (twin.pc = "run_all" ~> twin.pc \in {"idle", "aborted"})

====
